---- MODULE Spec2Model ----
(***************************************************************************)
(* Model of the kagent manifest tools: the rule-based validator            *)
(* (handleValidateManifest and the validate* rule sets) and the reconciler *)
(* (Client.Apply, Client.GetCurrentState, handleDiffManifest) running      *)
(* against a Kubernetes-style resource store with optimistic concurrency.  *)
(***************************************************************************)
EXTENDS Integers, Sequences, FiniteSets, TLC

(***************************************************************************)
(* Bounds of the model.                                                    *)
(***************************************************************************)
\* highest resourceVersion the store hands out (persisting writes explored)
MaxRv == 3
\* writes made by actors other than the tool server
MaxWrites == 2

(***************************************************************************)
(* Program constants.                                                      *)
(***************************************************************************)
\* cmd/mcp-server/main.go: namespace defaults to "kagent"
DefaultNamespace == "kagent"
\* validateAgent: strict && len(systemMessage) < 100
MinSystemMessageLen == 100

Procs == {"p1", "p2"}

(***************************************************************************)
(* The attribute tree.  A document is a record of fixed shape; a leaf that *)
(* the document does not carry is Nil (strings) or NoNum (numbers).        *)
(* Numbers keep their Go type: client-go decodes integers returned by the  *)
(* API server as int64, sigs.k8s.io/yaml decodes every number as float64.  *)
(***************************************************************************)
Nil == "<nil>"
NoNum == [t |-> "nil", v |-> 0]
Int64(n) == [t |-> "int64", v |-> n]
Float64(n) == [t |-> "float64", v |-> n]

EmptyMeta ==
    [name |-> Nil, namespace |-> Nil, resourceVersion |-> Nil, uid |-> Nil,
     managedFields |-> Nil, creationTimestamp |-> Nil, generation |-> NoNum]

EmptySpec ==
    [type |-> Nil,
     declarative |-> [modelConfig |-> Nil, systemMessage |-> Nil],
     description |-> Nil,
     provider |-> Nil, model |-> Nil, apiKeySecret |-> Nil,
     deployment |-> [image |-> Nil, port |-> NoNum],
     transportType |-> Nil,
     url |-> Nil, protocol |-> Nil]

EmptyDoc ==
    [apiVersion |-> Nil, kind |-> Nil, metadata |-> EmptyMeta,
     status |-> Nil, spec |-> EmptySpec]

\* unstructured.NestedString: (value, found); the getters of
\* unstructured.Unstructured return "" for a leaf that is not there.
NestedString(v) == [val |-> IF v = Nil THEN "" ELSE v, found |-> v # Nil]
GetAPIVersion(obj) == NestedString(obj.apiVersion).val
GetKind(obj) == NestedString(obj.kind).val
GetName(obj) == NestedString(obj.metadata.name).val
GetNamespace(obj) == NestedString(obj.metadata.namespace).val
GetResourceVersion(obj) == NestedString(obj.metadata.resourceVersion).val

SetNamespace(obj, ns) ==
    [obj EXCEPT !.metadata.namespace = IF ns = "" THEN Nil ELSE ns]
\* SetResourceVersion("") removes the field
SetResourceVersion(obj, rv) ==
    [obj EXCEPT !.metadata.resourceVersion = IF rv = "" THEN Nil ELSE rv]

\* yaml.Marshal followed by yaml.Unmarshal into map[string]interface{}:
\* strings survive, every number comes back as float64.
YamlNum(n) == IF n.t = "nil" THEN n ELSE Float64(n.v)
YamlRoundTrip(obj) ==
    [obj EXCEPT !.metadata.generation = YamlNum(@),
                !.spec.deployment.port = YamlNum(@)]

\* The manifest argument of a tool call: missing/empty, text that does not
\* decode, or text that decodes to a document.
NoArg == [form |-> "empty", doc |-> EmptyDoc]
BadArg == [form |-> "malformed", doc |-> EmptyDoc]
Yaml(doc) == [form |-> "yaml", doc |-> doc]
\* (mutation) text that does not decode is taken as an empty document
UnmarshalLenient(arg) ==
    [ok |-> TRUE,
     obj |-> IF arg.form = "yaml" THEN YamlRoundTrip(arg.doc) ELSE EmptyDoc]

\* yaml.Unmarshal([]byte(manifest), &obj.Object)
Unmarshal(arg) ==
    [ok |-> arg.form # "malformed",
     obj |-> IF arg.form = "yaml" THEN YamlRoundTrip(arg.doc) ELSE EmptyDoc]

(***************************************************************************)
(* The resource store (the API server behind the dynamic client).          *)
(* A store is a function from the identities present to their objects.     *)
(* Every call takes a fault: "none", or "unavailable" for a failure the    *)
(* store decides on its own (network, admission, authorisation).           *)
(***************************************************************************)
KnownKinds == {"Agent", "ModelConfig", "MCPServer", "RemoteMCPServer"}
Faults == {"none", "unavailable"}
EmptyStore == [i \in {} |-> EmptyDoc]
Id(kind, ns, name) == <<kind, ns, name>>
Present(st, id) == id \in DOMAIN st

Call(op, id, dry, sent, err, got) ==
    [op |-> op, id |-> id, dry |-> dry, sent |-> sent, err |-> err, got |-> got]

StoreGet(st, id, fault) ==
    IF fault # "none" THEN Call("Get", id, FALSE, EmptyDoc, fault, EmptyDoc)
    ELSE IF id[3] = "" THEN Call("Get", id, FALSE, EmptyDoc, "invalid", EmptyDoc)
    ELSE IF ~Present(st, id) THEN Call("Get", id, FALSE, EmptyDoc, "notfound", EmptyDoc)
    ELSE Call("Get", id, FALSE, EmptyDoc, "none", st[id])

\* what the server persists for a created object: the object as sent, with the
\* server-managed metadata assigned
Created(obj, rv) ==
    [obj EXCEPT !.metadata.resourceVersion = ToString(rv),
                !.metadata.uid = "uid-" \o ToString(rv),
                !.metadata.creationTimestamp = "t" \o ToString(rv),
                !.metadata.generation = Int64(1),
                !.metadata.managedFields = "mf",
                !.spec.deployment.port = IF @.t = "nil" THEN @ ELSE Int64(@.v)]

Updated(old, obj, rv) ==
    [obj EXCEPT !.metadata.resourceVersion = ToString(rv),
                !.metadata.uid = old.metadata.uid,
                !.metadata.creationTimestamp = old.metadata.creationTimestamp,
                !.metadata.generation =
                    IF YamlRoundTrip(obj).spec = YamlRoundTrip(old).spec
                    THEN old.metadata.generation
                    ELSE Int64(old.metadata.generation.v + 1),
                !.metadata.managedFields = "mf",
                !.spec.deployment.port = IF @.t = "nil" THEN @ ELSE Int64(@.v)]

Put(st, id, obj) == [i \in DOMAIN st \cup {id} |-> IF i = id THEN obj ELSE st[i]]
Remove(st, id) == [i \in DOMAIN st \ {id} |-> st[i]]

\* Create(kind, namespace, Manifest, dryRun): [call, store]; an object without
\* a name, or one that carries a resourceVersion, is refused
StoreCreate(st, id, obj, dry, fault, rv) ==
    IF fault # "none"
    THEN [call |-> Call("Create", id, dry, obj, fault, EmptyDoc), store |-> st]
    ELSE IF id[3] = "" \/ GetResourceVersion(obj) # ""
    THEN [call |-> Call("Create", id, dry, obj, "invalid", EmptyDoc), store |-> st]
    ELSE IF Present(st, id)
    THEN [call |-> Call("Create", id, dry, obj, "exists", EmptyDoc), store |-> st]
    ELSE [call |-> Call("Create", id, dry, obj, "none", Created(obj, rv)),
          store |-> IF dry THEN st ELSE Put(st, id, Created(obj, rv))]

\* Update(kind, namespace, Manifest-with-concurrency-token, dryRun)
StoreUpdate(st, id, obj, dry, fault, rv) ==
    IF fault # "none"
    THEN [call |-> Call("Update", id, dry, obj, fault, EmptyDoc), store |-> st]
    ELSE IF ~Present(st, id)
    THEN [call |-> Call("Update", id, dry, obj, "notfound", EmptyDoc), store |-> st]
    ELSE IF GetResourceVersion(obj) # GetResourceVersion(st[id])
    THEN [call |-> Call("Update", id, dry, obj, "conflict", EmptyDoc), store |-> st]
    ELSE [call |-> Call("Update", id, dry, obj, "none", Updated(st[id], obj, rv)),
          store |-> IF dry THEN st ELSE Put(st, id, Updated(st[id], obj, rv))]

(***************************************************************************)
(* What a tool invocation returns: an error result (mcp.NewToolResultError) *)
(* or a text result, kept here as its structured content.                  *)
(***************************************************************************)
NoResult == [kind |-> "none", err |-> "", action |-> "", okind |-> "",
             name |-> "", namespace |-> "", dryRun |-> FALSE, issues |-> <<>>]
\* (mutation) an error leaves the handler without becoming a result
ErrorResultLost(e) == NoResult

ErrorResult(e) == [NoResult EXCEPT !.kind = "error", !.err = e]

(***************************************************************************)
(* Client.Apply and handleApplyManifest.  The invocation takes two steps,  *)
(* one per store call: the Get, then the Update or the Create.             *)
(***************************************************************************)
\* (mutation) every kind is taken as an endpoint of the store
gvrFromKindAnyKind(kind) ==
    [ok |-> TRUE, gvr |-> kind]

\* gvrFromKind: the endpoint is identified by the kind; unknown kinds fail
gvrFromKind(kind) ==
    [ok |-> kind \in KnownKinds, gvr |-> kind]
gvrFromObject(obj) == gvrFromKind(GetKind(obj))

\* (mutation) the configured namespace replaces the manifest's own
WithNamespaceAlwaysDefault(obj) == SetNamespace(obj, DefaultNamespace)

\* Apply: "Set namespace if not specified"
WithNamespace(obj) ==
    IF GetNamespace(obj) = "" THEN SetNamespace(obj, DefaultNamespace) ELSE obj

\* the identity Apply addresses in the store
ApplyId(obj) == Id(gvrFromObject(obj).gvr, GetNamespace(obj), GetName(obj))

\* the identity a manifest names: its kind, its namespace or else the
\* configured one, its name
ManifestId(obj) == Id(GetKind(obj), GetNamespace(WithNamespace(obj)), GetName(obj))

\* Apply: "if err == nil" after the Get selects the update branch
ApplyBranch(getErr) == IF getErr = "none" THEN "update" ELSE "create"

\* (mutation) the fetched resourceVersion is not copied onto the object
UpdateObjectKeepsVersion(obj, existing) == obj

\* (mutation) a resourceVersion the manifest carries is kept
UpdateObjectKeepsOwnVersion(obj, existing) ==
    IF GetResourceVersion(obj) # "" THEN obj
    ELSE SetResourceVersion(obj, GetResourceVersion(existing))

\* Apply: obj.SetResourceVersion(existing.GetResourceVersion())
UpdateObject(obj, existing) ==
    SetResourceVersion(obj, GetResourceVersion(existing))

\* Apply: opts.DryRun / updateOpts.DryRun = [DryRunAll] when dryRun
CreateOptions(dryRun) == dryRun
\* (mutation) the update branch forgets the dry-run marking
UpdateOptionsPersist(dryRun) == FALSE
UpdateOptions(dryRun) == dryRun

ApplyOutcome(action, obj, dryRun) ==
    [NoResult EXCEPT !.kind = "outcome", !.action = action,
                     !.okind = GetKind(obj), !.name = GetName(obj),
                     !.namespace = GetNamespace(obj), !.dryRun = dryRun]

\* (mutation) Apply refuses an agent manifest that has no spec.type
ApplyBeginValidates(st, arg, fault) ==
    IF arg.form = "empty"
    THEN [pc |-> "done", obj |-> EmptyDoc, existing |-> EmptyDoc, calls |-> <<>>,
          result |-> ErrorResult("manifest is required")]
    ELSE IF ~Unmarshal(arg).ok
    THEN [pc |-> "done", obj |-> EmptyDoc, existing |-> EmptyDoc, calls |-> <<>>,
          result |-> ErrorResult("failed to parse manifest")]
    ELSE IF ~gvrFromObject(Unmarshal(arg).obj).ok
    THEN [pc |-> "done", obj |-> Unmarshal(arg).obj, existing |-> EmptyDoc,
          calls |-> <<>>, result |-> ErrorResult("unknown kind")]
    ELSE IF Unmarshal(arg).obj.kind = "Agent" /\ Unmarshal(arg).obj.spec.type = Nil
    THEN [pc |-> "done", obj |-> Unmarshal(arg).obj, existing |-> EmptyDoc,
          calls |-> <<>>, result |-> ErrorResult("manifest has errors")]
    ELSE LET obj == WithNamespace(Unmarshal(arg).obj)
             get == StoreGet(st, ApplyId(obj), fault)
         IN [pc |-> ApplyBranch(get.err), obj |-> obj, existing |-> get.got,
             calls |-> <<get>>, result |-> NoResult]

\* handleApplyManifest up to and including Apply's Get
ApplyBegin(st, arg, fault) ==
    IF arg.form = "empty"
    THEN [pc |-> "done", obj |-> EmptyDoc, existing |-> EmptyDoc, calls |-> <<>>,
          result |-> ErrorResult("manifest is required")]
    ELSE IF ~Unmarshal(arg).ok
    THEN [pc |-> "done", obj |-> EmptyDoc, existing |-> EmptyDoc, calls |-> <<>>,
          result |-> ErrorResult("failed to parse manifest")]
    ELSE IF ~gvrFromObject(Unmarshal(arg).obj).ok
    THEN [pc |-> "done", obj |-> Unmarshal(arg).obj, existing |-> EmptyDoc,
          calls |-> <<>>, result |-> ErrorResult("unknown kind")]
    ELSE LET obj == WithNamespace(Unmarshal(arg).obj)
             get == StoreGet(st, ApplyId(obj), fault)
         IN [pc |-> ApplyBranch(get.err), obj |-> obj, existing |-> get.got,
             calls |-> <<get>>, result |-> NoResult]

\* (mutation) on a conflict the update is retried with the current version
ApplyUpdateRetry(st, obj, existing, dryRun, fault, rv) ==
    LET sent == UpdateObject(obj, existing)
        id == ApplyId(sent)
        r1 == StoreUpdate(st, id, sent, UpdateOptions(dryRun), fault, rv)
        again == SetResourceVersion(obj, GetResourceVersion(st[id]))
        r == IF r1.call.err = "conflict"
             THEN StoreUpdate(st, id, again, UpdateOptions(dryRun), fault, rv)
             ELSE r1
    IN [call |-> r.call, store |-> r.store,
        result |-> IF r.call.err # "none" THEN ErrorResult(r.call.err)
                   ELSE ApplyOutcome("updated", sent, dryRun)]

\* Apply's update branch: [call, store, result]
ApplyUpdate(st, obj, existing, dryRun, fault, rv) ==
    LET sent == UpdateObject(obj, existing)
        r == StoreUpdate(st, ApplyId(sent), sent, UpdateOptions(dryRun), fault, rv)
    IN [call |-> r.call, store |-> r.store,
        result |-> IF r.call.err # "none" THEN ErrorResult(r.call.err)
                   ELSE ApplyOutcome("updated", sent, dryRun)]

\* (mutation) a Create refused because the resource exists falls back to an
\* Update of the stored resource
ApplyCreateFallsBack(st, obj, dryRun, fault, rv) ==
    LET r == StoreCreate(st, ApplyId(obj), obj, CreateOptions(dryRun), fault, rv)
        sent == UpdateObject(obj, st[ApplyId(obj)])
        u == StoreUpdate(st, ApplyId(obj), sent, UpdateOptions(dryRun), fault, rv)
    IN IF r.call.err = "exists"
       THEN [call |-> u.call, store |-> u.store,
             result |-> ApplyOutcome("updated", sent, dryRun)]
       ELSE [call |-> r.call, store |-> r.store,
             result |-> IF r.call.err # "none" THEN ErrorResult(r.call.err)
                        ELSE ApplyOutcome("created", obj, dryRun)]

\* (mutation) the create branch reports created whatever the store answered
ApplyCreateReportsAnyway(st, obj, dryRun, fault, rv) ==
    LET r == StoreCreate(st, ApplyId(obj), obj, CreateOptions(dryRun), fault, rv)
    IN [call |-> r.call, store |-> r.store,
        result |-> ApplyOutcome("created", obj, dryRun)]

\* Apply's create branch: [call, store, result]
ApplyCreate(st, obj, dryRun, fault, rv) ==
    LET r == StoreCreate(st, ApplyId(obj), obj, CreateOptions(dryRun), fault, rv)
    IN [call |-> r.call, store |-> r.store,
        result |-> IF r.call.err # "none" THEN ErrorResult(r.call.err)
                   ELSE ApplyOutcome("created", obj, dryRun)]

\* Client.Apply from its first line to its return, with no step of anybody
\* else in between: [store, calls, result]
ApplyRun(st, arg, dryRun, f1, f2, rv) ==
    LET b == ApplyBegin(st, arg, f1)
        r == IF b.pc = "update"
             THEN ApplyUpdate(st, b.obj, b.existing, dryRun, f2, rv)
             ELSE ApplyCreate(st, b.obj, dryRun, f2, rv)
    IN IF b.pc = "done"
       THEN [store |-> st, calls |-> b.calls, result |-> b.result]
       ELSE [store |-> r.store, calls |-> Append(b.calls, r.call),
             result |-> r.result]

(***************************************************************************)
(* Client.GetCurrentState and handleDiffManifest (one store call).         *)
(***************************************************************************)
\* GetCurrentState: "Remove server-managed fields for cleaner diff"
StripManaged(obj) ==
    [obj EXCEPT !.status = Nil,
                !.metadata.creationTimestamp = Nil,
                !.metadata.generation = NoNum,
                !.metadata.resourceVersion = Nil,
                !.metadata.uid = Nil,
                !.metadata.managedFields = Nil]

\* (mutation) GetCurrentState asks the store a second time when the first
\* Get fails
GetCurrentStateRetry(st, kind, name, fault) ==
    IF ~gvrFromKind(kind).ok
    THEN [err |-> "unknown kind", yaml |-> Yaml(EmptyDoc), calls |-> <<>>]
    ELSE LET get == StoreGet(st, Id(gvrFromKind(kind).gvr, DefaultNamespace, name), fault)
         IN IF get.err # "none"
            THEN [err |-> get.err, yaml |-> Yaml(EmptyDoc), calls |-> <<get, get>>]
            ELSE [err |-> "none", yaml |-> Yaml(StripManaged(get.got)),
                  calls |-> <<get>>]

\* GetCurrentState(kind, name): [err, yaml, calls]; the namespace is the
\* client's configured one
GetCurrentState(st, kind, name, fault) ==
    IF ~gvrFromKind(kind).ok
    THEN [err |-> "unknown kind", yaml |-> Yaml(EmptyDoc), calls |-> <<>>]
    ELSE LET get == StoreGet(st, Id(gvrFromKind(kind).gvr, DefaultNamespace, name), fault)
         IN IF get.err # "none"
            THEN [err |-> get.err, yaml |-> Yaml(EmptyDoc), calls |-> <<get>>]
            ELSE [err |-> "none", yaml |-> Yaml(StripManaged(get.got)),
                  calls |-> <<get>>]

\* handleDiffManifest: "Clean the proposed manifest for comparison"
ProposedClean(obj) == [obj EXCEPT !.status = Nil]

\* cmp.Diff(currentObj, proposedClean) == ""
CmpEqual(a, b) == a = b

DiffResult(k, obj) ==
    [NoResult EXCEPT !.kind = k, !.okind = GetKind(obj), !.name = GetName(obj)]

\* handleDiffManifest: [calls, result]
handleDiffManifest(st, arg, fault) ==
    IF arg.form = "empty"
    THEN [calls |-> <<>>, result |-> ErrorResult("manifest is required")]
    ELSE IF ~Unmarshal(arg).ok
    THEN [calls |-> <<>>, result |-> ErrorResult("failed to parse manifest")]
    ELSE LET obj == Unmarshal(arg).obj
             cur == GetCurrentState(st, GetKind(obj), GetName(obj), fault)
         IN IF cur.err # "none"
            THEN [calls |-> cur.calls, result |-> DiffResult("new", obj)]
            ELSE IF ~Unmarshal(cur.yaml).ok
            THEN [calls |-> cur.calls,
                  result |-> ErrorResult("failed to parse current state")]
            ELSE IF CmpEqual(Unmarshal(cur.yaml).obj, ProposedClean(obj))
            THEN [calls |-> cur.calls, result |-> DiffResult("nochange", obj)]
            ELSE [calls |-> cur.calls, result |-> DiffResult("diff", obj)]


(***************************************************************************)
(* Client.GetAgent, Client.Delete and handleDeleteAgent.  The invocation   *)
(* takes up to two steps, one per store call: the Get, then the Delete.    *)
(***************************************************************************)
\* the name argument of delete_agent as the caller sends it (Nil: not sent)
NameArg(n) == [form |-> "name", doc |-> EmptyDoc, name |-> n]
\* name, _ := req.Params.Arguments["name"].(string)
NameOf(arg) == IF arg.name = Nil THEN "" ELSE arg.name

\* Client.GetAgent: a Get in the configured namespace
GetAgent(st, name, fault) ==
    StoreGet(st, Id("Agent", DefaultNamespace, name), fault)

\* Delete(kind, namespace, name, dryRun): [call, store]
StoreDelete(st, id, dry, fault) ==
    IF fault # "none"
    THEN [call |-> Call("Delete", id, dry, EmptyDoc, fault, EmptyDoc), store |-> st]
    ELSE IF ~Present(st, id)
    THEN [call |-> Call("Delete", id, dry, EmptyDoc, "notfound", EmptyDoc),
          store |-> st]
    ELSE [call |-> Call("Delete", id, dry, EmptyDoc, "none", EmptyDoc),
          store |-> IF dry THEN st ELSE Remove(st, id)]

\* Client.Delete: opts.DryRun = [DryRunAll] when dryRun
DeleteOptions(dryRun) == dryRun

\* Client.Delete(kind, name, dryRun): [calls, store, err]
Delete(st, kind, name, dryRun, fault) ==
    IF ~gvrFromKind(kind).ok
    THEN [calls |-> <<>>, store |-> st, err |-> "unknown kind"]
    ELSE LET r == StoreDelete(st, Id(gvrFromKind(kind).gvr, DefaultNamespace, name),
                              DeleteOptions(dryRun), fault)
         IN [calls |-> <<r.call>>, store |-> r.store, err |-> r.call.err]

\* the text results of handleDeleteAgent
DeleteResult(action, name, agent, dryRun) ==
    [NoResult EXCEPT !.kind = "text", !.action = action, !.okind = "Agent",
                     !.name = name, !.namespace = GetNamespace(agent),
                     !.dryRun = dryRun]

\* (mutation) the agent is looked up before the name is checked
DeleteBeginLookupFirst(st, arg, dryRun, fault) ==
    LET get == GetAgent(st, NameOf(arg), fault)
    IN IF NameOf(arg) = ""
       THEN [pc |-> "done", existing |-> EmptyDoc, calls |-> <<get>>,
             result |-> ErrorResult("name is required")]
       ELSE IF get.err # "none"
       THEN [pc |-> "done", existing |-> EmptyDoc, calls |-> <<get>>,
             result |-> ErrorResult(get.err)]
       ELSE IF dryRun
       THEN [pc |-> "done", existing |-> get.got, calls |-> <<get>>,
             result |-> DeleteResult("would be deleted", NameOf(arg),
                                     get.got, TRUE)]
       ELSE [pc |-> "delete", existing |-> get.got, calls |-> <<get>>,
             result |-> NoResult]

\* handleDeleteAgent up to its Delete call: the name check, GetAgent, and
\* the dry-run answer
DeleteBegin(st, arg, dryRun, fault) ==
    IF NameOf(arg) = ""
    THEN [pc |-> "done", existing |-> EmptyDoc, calls |-> <<>>,
          result |-> ErrorResult("name is required")]
    ELSE LET get == GetAgent(st, NameOf(arg), fault)
         IN IF get.err # "none"
            THEN [pc |-> "done", existing |-> EmptyDoc, calls |-> <<get>>,
                  result |-> ErrorResult(get.err)]
            ELSE IF dryRun
            THEN [pc |-> "done", existing |-> get.got, calls |-> <<get>>,
                  result |-> DeleteResult("would be deleted", NameOf(arg),
                                          get.got, TRUE)]
            ELSE [pc |-> "delete", existing |-> get.got, calls |-> <<get>>,
                  result |-> NoResult]

\* (mutation) the handler reports the deletion whatever the store answered
DeleteFinishReportsAnyway(st, arg, existing, fault) ==
    LET r == Delete(st, "Agent", NameOf(arg), FALSE, fault)
    IN [calls |-> r.calls, store |-> r.store,
        result |-> DeleteResult("deleted", NameOf(arg), existing, FALSE)]

\* handleDeleteAgent from its Delete call on: [calls, store, result]
DeleteFinish(st, arg, existing, fault) ==
    LET r == Delete(st, "Agent", NameOf(arg), FALSE, fault)
    IN [calls |-> r.calls, store |-> r.store,
        result |-> IF r.err # "none" THEN ErrorResult(r.err)
                   ELSE DeleteResult("deleted", NameOf(arg), existing, FALSE)]

(***************************************************************************)
(* handleValidateManifest and the rule sets of the four kinds.  Each rule  *)
(* is one operator giving the issues it appends, in the order of the code. *)
(***************************************************************************)
Issue(sev, field, msg) == [severity |-> sev, field |-> field, message |-> msg]
Missing(v) == ~NestedString(v).found \/ NestedString(v).val = ""
\* strings.HasPrefix
HasPrefix(str, pre) == Len(str) >= Len(pre) /\ SubSeq(str, 1, Len(pre)) = pre

\* "Basic validation": apiVersion, kind, metadata.name
CheckAPIVersion(obj) ==
    IF GetAPIVersion(obj) = ""
    THEN <<Issue("error", "apiVersion", "apiVersion is required")>> ELSE <<>>
CheckKind(obj) ==
    IF GetKind(obj) = ""
    THEN <<Issue("error", "kind", "kind is required")>> ELSE <<>>
\* (mutation) the name check is run a second time
CheckNameTwice(obj) ==
    IF GetName(obj) = ""
    THEN <<Issue("error", "metadata.name", "metadata.name is required"),
           Issue("error", "metadata.name", "metadata.name is required")>>
    ELSE <<>>
CheckName(obj) ==
    IF GetName(obj) = ""
    THEN <<Issue("error", "metadata.name", "metadata.name is required")>> ELSE <<>>

\* Client.GetModelConfig: a Get in the configured namespace
GetModelConfig(st, name, fault) ==
    StoreGet(st, Id("ModelConfig", DefaultNamespace, name), fault)

\* validateAgent, "Check spec.type"
CheckAgentType(obj) ==
    IF Missing(obj.spec.type)
    THEN <<Issue("error", "spec.type",
                 "spec.type is required (should be 'Declarative' or 'BYO')")>>
    ELSE <<>>

\* (mutation) a lookup that failed otherwise than not-found is an error
CheckModelConfigRefOutageIsError(st, obj, fault) ==
    LET mc == NestedString(obj.spec.declarative.modelConfig)
        get == GetModelConfig(st, mc.val, fault)
    IN IF ~mc.found \/ mc.val = ""
       THEN [issues |-> <<Issue("error", "spec.declarative.modelConfig",
                 "spec.declarative.modelConfig is required for Declarative agents")>>,
             calls |-> <<>>]
       ELSE [issues |-> IF get.err = "notfound"
                        THEN <<Issue("warning", "spec.declarative.modelConfig",
                                 "ModelConfig '" \o mc.val
                                   \o "' not found in namespace. Ensure it exists before applying.")>>
                        ELSE IF get.err # "none"
                        THEN <<Issue("error", "spec.declarative.modelConfig",
                                 "ModelConfig lookup failed")>>
                        ELSE <<>>,
             calls |-> <<get>>]

\* validateAgent, "Check modelConfig reference": [issues, calls]
CheckModelConfigRef(st, obj, fault) ==
    LET mc == NestedString(obj.spec.declarative.modelConfig)
        get == GetModelConfig(st, mc.val, fault)
    IN IF ~mc.found \/ mc.val = ""
       THEN [issues |-> <<Issue("error", "spec.declarative.modelConfig",
                 "spec.declarative.modelConfig is required for Declarative agents")>>,
             calls |-> <<>>]
       ELSE [issues |-> IF get.err # "none"
                        THEN <<Issue("warning", "spec.declarative.modelConfig",
                                 "ModelConfig '" \o mc.val
                                   \o "' not found in namespace. Ensure it exists before applying.")>>
                        ELSE <<>>,
             calls |-> <<get>>]

\* (mutation) the whole systemMessage check sits behind the strict flag
CheckSystemMessageStrictOnly(obj, strict) ==
    LET sm == NestedString(obj.spec.declarative.systemMessage)
    IN IF ~strict THEN <<>>
       ELSE IF ~sm.found \/ sm.val = ""
       THEN <<Issue("error", "spec.declarative.systemMessage",
                "spec.declarative.systemMessage is required for Declarative agents")>>
       ELSE IF Len(sm.val) < MinSystemMessageLen
       THEN <<Issue("warning", "spec.declarative.systemMessage",
                "System message seems short. Consider providing more detailed instructions for the agent.")>>
       ELSE <<>>

\* validateAgent, "Check systemMessage"
CheckSystemMessage(obj, strict) ==
    LET sm == NestedString(obj.spec.declarative.systemMessage)
    IN IF ~sm.found \/ sm.val = ""
       THEN <<Issue("error", "spec.declarative.systemMessage",
                "spec.declarative.systemMessage is required for Declarative agents")>>
       ELSE IF strict /\ Len(sm.val) < MinSystemMessageLen
       THEN <<Issue("warning", "spec.declarative.systemMessage",
                "System message seems short. Consider providing more detailed instructions for the agent.")>>
       ELSE <<>>

\* (mutation) the description advice is given whatever the strict flag
CheckDescriptionAlways(obj, strict) ==
    IF NestedString(obj.spec.description).val = ""
    THEN <<Issue("warning", "spec.description",
             "Consider adding a description to help users understand the agent's purpose")>>
    ELSE <<>>

\* (mutation) a missing description is reported as an error
CheckDescriptionAsError(obj, strict) ==
    IF strict /\ NestedString(obj.spec.description).val = ""
    THEN <<Issue("error", "spec.description",
             "Consider adding a description to help users understand the agent's purpose")>>
    ELSE <<>>

\* validateAgent, "Check description"
CheckDescription(obj, strict) ==
    IF strict /\ NestedString(obj.spec.description).val = ""
    THEN <<Issue("warning", "spec.description",
             "Consider adding a description to help users understand the agent's purpose")>>
    ELSE <<>>

\* validateAgent: [issues, calls]
validateAgent(st, obj, strict, fault) ==
    LET declarative == NestedString(obj.spec.type).val = "Declarative"
        ref == CheckModelConfigRef(st, obj, fault)
    IN [issues |-> CheckAgentType(obj)
                   \o (IF declarative
                       THEN ref.issues \o CheckSystemMessage(obj, strict)
                       ELSE <<>>)
                   \o CheckDescription(obj, strict),
        calls |-> IF declarative THEN ref.calls ELSE <<>>]

ValidProviders == {"OpenAI", "AzureOpenAI", "Anthropic", "Gemini", "Ollama", "Custom"}

\* (mutation) any non-empty provider is accepted
CheckProviderAnyValue(obj) ==
    LET provider == NestedString(obj.spec.provider)
    IN IF ~provider.found \/ provider.val = ""
       THEN <<Issue("error", "spec.provider", "spec.provider is required")>>
       ELSE <<>>
\* validateModelConfig, "Check provider"
CheckProvider(obj) ==
    LET provider == NestedString(obj.spec.provider)
    IN IF ~provider.found \/ provider.val = ""
       THEN <<Issue("error", "spec.provider", "spec.provider is required")>>
       ELSE IF provider.val \notin ValidProviders
       THEN <<Issue("error", "spec.provider",
                "Invalid provider '" \o provider.val
                  \o "'. Must be one of: OpenAI, AzureOpenAI, Anthropic, Gemini, Ollama, Custom")>>
       ELSE <<>>

\* (mutation) only an absent spec.model is reported, not an empty one
CheckModelAbsentOnly(obj) ==
    IF ~NestedString(obj.spec.model).found
    THEN <<Issue("error", "spec.model", "spec.model is required")>> ELSE <<>>

\* validateModelConfig, "Check model"
CheckModel(obj) ==
    IF Missing(obj.spec.model)
    THEN <<Issue("error", "spec.model", "spec.model is required")>> ELSE <<>>

\* (mutation) the secret is asked for only with a valid provider other than Ollama
CheckApiKeySecretValidProviderOnly(obj) ==
    IF Missing(obj.spec.apiKeySecret)
         /\ NestedString(obj.spec.provider).val \in ValidProviders \ {"Ollama"}
    THEN <<Issue("error", "spec.apiKeySecret",
             "spec.apiKeySecret is required for non-Ollama providers")>>
    ELSE <<>>

\* validateModelConfig, "Check apiKeySecret"
CheckApiKeySecret(obj) ==
    IF Missing(obj.spec.apiKeySecret) /\ NestedString(obj.spec.provider).val # "Ollama"
    THEN <<Issue("error", "spec.apiKeySecret",
             "spec.apiKeySecret is required for non-Ollama providers")>>
    ELSE <<>>

\* (mutation) the model check runs before the provider check
validateModelConfigModelFirst(obj) ==
    CheckModel(obj) \o CheckProvider(obj) \o CheckApiKeySecret(obj)

validateModelConfig(obj) ==
    CheckProvider(obj) \o CheckModel(obj) \o CheckApiKeySecret(obj)

\* validateMCPServer, "Check deployment"
CheckImage(obj) ==
    IF Missing(obj.spec.deployment.image)
    THEN <<Issue("error", "spec.deployment.image",
             "spec.deployment.image is required for MCPServer")>>
    ELSE <<>>

\* validateMCPServer, "Check transportType"
CheckTransportType(obj) ==
    LET tt == NestedString(obj.spec.transportType).val
    IN IF tt # "" /\ tt # "stdio"
       THEN <<Issue("warning", "spec.transportType",
                "Unexpected transportType '" \o tt \o "'. MCPServer typically uses 'stdio'")>>
       ELSE <<>>

validateMCPServer(obj) == CheckImage(obj) \o CheckTransportType(obj)

\* validateRemoteMCPServer, "Check URL"
CheckUrl(obj) ==
    LET url == NestedString(obj.spec.url)
    IN IF ~url.found \/ url.val = ""
       THEN <<Issue("error", "spec.url", "spec.url is required for RemoteMCPServer")>>
       ELSE IF ~HasPrefix(url.val, "http://") /\ ~HasPrefix(url.val, "https://")
       THEN <<Issue("error", "spec.url", "spec.url must start with http:// or https://")>>
       ELSE <<>>

\* validateRemoteMCPServer, "Check protocol"
CheckProtocol(obj) ==
    LET protocol == NestedString(obj.spec.protocol).val
    IN IF protocol # "" /\ protocol # "STREAMABLE_HTTP" /\ protocol # "SSE"
       THEN <<Issue("error", "spec.protocol",
                "spec.protocol must be 'STREAMABLE_HTTP' or 'SSE'")>>
       ELSE <<>>

validateRemoteMCPServer(obj) == CheckUrl(obj) \o CheckProtocol(obj)

\* (mutation) a kind outside the four is rejected with an error
KindIssuesUnknownIsError(st, obj, strict, fault) ==
    CASE GetKind(obj) = "Agent" -> validateAgent(st, obj, strict, fault)
      [] GetKind(obj) = "ModelConfig" ->
            [issues |-> validateModelConfig(obj), calls |-> <<>>]
      [] GetKind(obj) = "MCPServer" ->
            [issues |-> validateMCPServer(obj), calls |-> <<>>]
      [] GetKind(obj) = "RemoteMCPServer" ->
            [issues |-> validateRemoteMCPServer(obj), calls |-> <<>>]
      [] OTHER ->
            [issues |-> <<Issue("error", "kind",
                            "Unknown kind '" \o GetKind(obj)
                              \o "'. Expected: Agent, ModelConfig, MCPServer, or RemoteMCPServer")>>,
             calls |-> <<>>]

\* handleValidateManifest, "Kind-specific validation": [issues, calls]
KindIssues(st, obj, strict, fault) ==
    CASE GetKind(obj) = "Agent" -> validateAgent(st, obj, strict, fault)
      [] GetKind(obj) = "ModelConfig" ->
            [issues |-> validateModelConfig(obj), calls |-> <<>>]
      [] GetKind(obj) = "MCPServer" ->
            [issues |-> validateMCPServer(obj), calls |-> <<>>]
      [] GetKind(obj) = "RemoteMCPServer" ->
            [issues |-> validateRemoteMCPServer(obj), calls |-> <<>>]
      [] OTHER ->
            [issues |-> <<Issue("warning", "kind",
                            "Unknown kind '" \o GetKind(obj)
                              \o "'. Expected: Agent, ModelConfig, MCPServer, or RemoteMCPServer")>>,
             calls |-> <<>>]

\* the strict argument: true unless the caller passes a boolean
StrictArgs == {"unset", "true", "false"}
StrictOf(raw) == raw # "false"

HasErrors(issues) == \E k \in 1..Len(issues) : issues[k].severity = "error"

\* the text result: the issue list and the closing verdict
ValidationResult(issues) ==
    [NoResult EXCEPT !.kind = IF issues = <<>> THEN "passed" ELSE "issues",
                     !.issues = issues,
                     !.action = IF issues = <<>> THEN "ready to apply"
                                ELSE IF HasErrors(issues) THEN "should not be applied"
                                ELSE "can be applied"]

\* handleValidateManifest: [calls, result]
handleValidateManifest(st, arg, rawStrict, fault) ==
    IF arg.form = "empty"
    THEN [calls |-> <<>>, result |-> ErrorResult("manifest is required")]
    ELSE IF ~Unmarshal(arg).ok
    THEN [calls |-> <<>>, result |-> ErrorResult("failed to parse manifest")]
    ELSE LET obj == Unmarshal(arg).obj
             specific == KindIssues(st, obj, StrictOf(rawStrict), fault)
         IN [calls |-> specific.calls,
             result |-> ValidationResult(CheckAPIVersion(obj) \o CheckKind(obj)
                                           \o CheckName(obj) \o specific.issues)]


(***************************************************************************)
(* State.                                                                  *)
(***************************************************************************)
VARIABLES
    store,      \* the resources the API server holds
    rvCounter,  \* the last resourceVersion the server handed out
    writes,     \* writes made so far by other actors
    inv         \* per worker: the tool invocation it is running or has finished

vars == <<store, rvCounter, writes, inv>>

Idle ==
    [tool |-> "none", pc |-> "idle", arg |-> NoArg, flag |-> FALSE,
     obj |-> EmptyDoc, existing |-> EmptyDoc, snap |-> EmptyStore,
     quiet |-> TRUE, calls |-> <<>>, result |-> NoResult, past |-> <<>>]

Init ==
    /\ store = EmptyStore
    /\ rvCounter = 0
    /\ writes = 0
    /\ inv = [p \in Procs |-> Idle]

(***************************************************************************)
(* Manifests the callers of the reconciler submit.                         *)
(***************************************************************************)
AgentDoc(ns, desc) ==
    [EmptyDoc EXCEPT !.apiVersion = "kagent.dev/v1alpha2", !.kind = "Agent",
                     !.metadata.name = "a", !.metadata.namespace = ns,
                     !.spec.type = "BYO", !.spec.description = desc]
WidgetDoc ==
    [EmptyDoc EXCEPT !.apiVersion = "example.dev/v1", !.kind = "Widget",
                     !.metadata.name = "a"]

McpDoc ==
    [EmptyDoc EXCEPT !.apiVersion = "kagent.dev/v1alpha1", !.kind = "MCPServer",
                     !.metadata.name = "m", !.metadata.namespace = "kagent",
                     !.spec.deployment.image = "img",
                     !.spec.deployment.port = Float64(8080)]
\* a manifest that also carries a status subtree / a uid
StatusDoc == [AgentDoc("kagent", "d1") EXCEPT !.status = "Pending"]
UidDoc == [AgentDoc("kagent", "d1") EXCEPT !.metadata.uid = "uid-1"]
\* the stored agent as a client exports it (kubectl get -o yaml), with its
\* server-managed metadata, and another status
ExportDoc ==
    [AgentDoc("kagent", "d1") EXCEPT
        !.metadata.resourceVersion = "1", !.metadata.uid = "uid-1",
        !.metadata.creationTimestamp = "t1", !.metadata.managedFields = "mf",
        !.metadata.generation = Float64(1), !.status = "Pending"]

\* the manifests of the sequential caller: those it applies, those it diffs
SeqApplyArgs ==
    {Yaml(AgentDoc(Nil, "d1")), Yaml(AgentDoc("other", "d1")), Yaml(McpDoc)}
DiffArgs ==
    SeqApplyArgs \cup
    {Yaml(AgentDoc("kagent", "d1")), Yaml(AgentDoc("kagent", "d2")),
     Yaml(StatusDoc), Yaml(UidDoc),
     Yaml(ExportDoc), Yaml(WidgetDoc), NoArg, BadArg}

(***************************************************************************)
(* Manifests the callers of the validator submit: for each kind, every     *)
(* combination of its checked fields being absent, empty or set.           *)
(***************************************************************************)
Digits == "0123456789"
\* system messages of 99 and of 100 characters
Msg99 == Digits \o Digits \o Digits \o Digits \o Digits \o Digits \o Digits
            \o Digits \o Digits \o "012345678"
Msg100 == Msg99 \o "9"

\* the ModelConfig the agents above refer to
ModelConfigDoc ==
    [EmptyDoc EXCEPT !.apiVersion = "kagent.dev/v1alpha2", !.kind = "ModelConfig",
                     !.metadata.name = "mc", !.metadata.namespace = DefaultNamespace,
                     !.spec.provider = "OpenAI", !.spec.model = "gpt-4",
                     !.spec.apiKeySecret = "key"]
GlobalDocs(kind) ==
    {[EmptyDoc EXCEPT !.apiVersion = av, !.kind = kind, !.metadata.name = nm] :
        av \in {Nil, "kagent.dev/v1alpha2"}, nm \in {Nil, "", "x"}}

AgentDocs ==
    {[g EXCEPT !.spec.type = ty, !.spec.declarative.modelConfig = mc,
               !.spec.declarative.systemMessage = sm, !.spec.description = de] :
        g \in GlobalDocs("Agent"), ty \in {"Declarative"},
        mc \in {Nil, "", "mc"}, sm \in {Nil, "", "short", Msg99, Msg100},
        de \in {Nil, "d"}}
    \cup
    {[g EXCEPT !.spec.type = ty, !.spec.declarative.modelConfig = ms[1],
               !.spec.declarative.systemMessage = ms[2], !.spec.description = de] :
        g \in GlobalDocs("Agent"), ty \in {Nil, "", "BYO"},
        ms \in {<<Nil, Nil>>, <<"mc", "short">>}, de \in {Nil, "d"}}

ModelConfigDocs ==
    {[g EXCEPT !.spec.provider = pr, !.spec.model = mo, !.spec.apiKeySecret = ak] :
        g \in GlobalDocs("ModelConfig"),
        pr \in {Nil, "", "OpenAI", "Ollama", "Bogus"},
        mo \in {Nil, "", "gpt-4"}, ak \in {Nil, "", "key"}}

\* the providers not met above, and one that differs from a valid one in case
ProviderDocs ==
    {[ModelConfigDoc EXCEPT !.metadata.namespace = Nil, !.spec.provider = pr] :
        pr \in {"AzureOpenAI", "Anthropic", "Gemini", "Custom", "openai"}}

\* a Declarative agent naming a ModelConfig, with a short system message and
\* no description
ScenarioDoc ==
    [EmptyDoc EXCEPT !.apiVersion = "kagent.dev/v1alpha2", !.kind = "Agent",
                     !.metadata.name = "x", !.spec.type = "Declarative",
                     !.spec.declarative.modelConfig = "missing-mc",
                     !.spec.declarative.systemMessage = "short"]

MCPServerDocs ==
    {[g EXCEPT !.spec.deployment.image = im, !.spec.transportType = tt] :
        g \in GlobalDocs("MCPServer"),
        im \in {Nil, "", "img"}, tt \in {Nil, "stdio", "http"}}

RemoteMCPServerDocs ==
    {[g EXCEPT !.spec.url = u, !.spec.protocol = pr] :
        g \in GlobalDocs("RemoteMCPServer"),
        u \in {Nil, "", "ftp://x", "http://x", "https://x"},
        pr \in {Nil, "SSE", "STREAMABLE_HTTP", "WS"}}

OtherDocs == GlobalDocs(Nil) \cup GlobalDocs("") \cup GlobalDocs("Widget")

ValidateArgs ==
    {Yaml(d) : d \in AgentDocs \cup ModelConfigDocs \cup ProviderDocs
                      \cup {ScenarioDoc}
                      \cup MCPServerDocs \cup RemoteMCPServerDocs \cup OtherDocs}
    \cup {NoArg, BadArg}

ApplyArgs ==
    {Yaml(AgentDoc(Nil, "d1")), Yaml(AgentDoc(Nil, "d2")), Yaml(WidgetDoc),
     NoArg, BadArg}

(***************************************************************************)
(* Actions.                                                                *)
(***************************************************************************)
\* a worker takes a new invocation when it is not in the middle of one; the
\* result of the one before is still at hand only when the caller repeats a
\* call on the same manifest text
Offered(p, args) ==
    IF inv[p].pc = "idle" THEN args
    ELSE IF inv[p].pc = "done" /\ inv[p].arg \in args THEN {inv[p].arg}
    ELSE {}
\* persisting writes still owed by invocations between their two store calls
InFlight == Cardinality({p \in Procs : inv[p].pc \in {"update", "create"} /\ ~inv[p].flag})
RvLeft == MaxRv - rvCounter - InFlight
Bump(st) == IF st # store THEN rvCounter + 1 ELSE rvCounter

\* the previous invocation, when the caller repeats a call on its manifest
Past(p, arg) ==
    IF inv[p].pc = "done" /\ inv[p].arg = arg
    THEN <<[tool |-> inv[p].tool, flag |-> inv[p].flag, calls |-> inv[p].calls,
            result |-> inv[p].result]>>
    ELSE <<>>

\* apply_manifest arrives: handleApplyManifest runs up to Apply's Get
ApplyStart(p, args) ==
    \E arg \in Offered(p, args), dryRun \in BOOLEAN, fault \in Faults :
        /\ dryRun \/ RvLeft > 0
        /\ LET b == ApplyBegin(store, arg, fault)
           IN inv' = [inv EXCEPT ![p] =
                        [Idle EXCEPT !.tool = "apply", !.arg = arg, !.flag = dryRun,
                                     !.pc = b.pc, !.obj = b.obj,
                                     !.existing = b.existing, !.snap = store,
                                     !.calls = b.calls, !.result = b.result,
                                     !.past = Past(p, arg)]]
        /\ UNCHANGED <<store, rvCounter, writes>>

\* Apply's update branch runs to the end of the handler
ApplyUpdateStep(p) ==
    \E fault \in Faults :
        /\ inv[p].tool = "apply" /\ inv[p].pc = "update"
        /\ LET r == ApplyUpdate(store, inv[p].obj, inv[p].existing, inv[p].flag,
                                fault, rvCounter + 1)
           IN /\ store' = r.store
              /\ rvCounter' = Bump(r.store)
              /\ inv' = [inv EXCEPT ![p].pc = "done",
                                    ![p].quiet = (store = inv[p].snap),
                                    ![p].calls = Append(@, r.call),
                                    ![p].result = r.result]
        /\ UNCHANGED writes

\* Apply's create branch runs to the end of the handler
ApplyCreateStep(p) ==
    \E fault \in Faults :
        /\ inv[p].tool = "apply" /\ inv[p].pc = "create"
        /\ LET r == ApplyCreate(store, inv[p].obj, inv[p].flag, fault, rvCounter + 1)
           IN /\ store' = r.store
              /\ rvCounter' = Bump(r.store)
              /\ inv' = [inv EXCEPT ![p].pc = "done",
                                    ![p].quiet = (store = inv[p].snap),
                                    ![p].calls = Append(@, r.call),
                                    ![p].result = r.result]
        /\ UNCHANGED writes

\* diff_manifest: the whole handler (a single Get)
DiffCall(p, args) ==
    \E arg \in Offered(p, args), fault \in Faults :
        /\ LET r == handleDiffManifest(store, arg, fault)
           IN inv' = [inv EXCEPT ![p] =
                        [Idle EXCEPT !.tool = "diff", !.arg = arg, !.pc = "done",
                                     !.obj = Unmarshal(arg).obj, !.snap = store,
                                     !.calls = r.calls, !.result = r.result,
                                     !.past = Past(p, arg)]]
        /\ UNCHANGED <<store, rvCounter, writes>>

\* validate_manifest: the whole handler (at most one Get)
ValidateCall(p, args) ==
    \E arg \in Offered(p, args), raw \in StrictArgs, fault \in Faults :
        /\ LET r == handleValidateManifest(store, arg, raw, fault)
           IN inv' = [inv EXCEPT ![p] =
                        [Idle EXCEPT !.tool = "validate", !.arg = arg,
                                     !.flag = StrictOf(raw), !.pc = "done",
                                     !.obj = Unmarshal(arg).obj, !.snap = store,
                                     !.calls = r.calls, !.result = r.result,
                                     !.past = Past(p, arg)]]
        /\ UNCHANGED <<store, rvCounter, writes>>

\* delete_agent arrives: handleDeleteAgent runs up to its Delete call
DeleteStart(p, names) ==
    \E arg \in Offered(p, names), dryRun \in BOOLEAN, fault \in Faults :
        /\ LET b == DeleteBegin(store, arg, dryRun, fault)
           IN inv' = [inv EXCEPT ![p] =
                        [Idle EXCEPT !.tool = "delete", !.arg = arg, !.flag = dryRun,
                                     !.pc = b.pc, !.existing = b.existing,
                                     !.snap = store, !.calls = b.calls,
                                     !.result = b.result, !.past = Past(p, arg)]]
        /\ UNCHANGED <<store, rvCounter, writes>>

\* handleDeleteAgent's Delete call and the rest of the handler
DeleteStep(p) ==
    \E fault \in Faults :
        /\ inv[p].tool = "delete" /\ inv[p].pc = "delete"
        /\ LET r == DeleteFinish(store, inv[p].arg, inv[p].existing, fault)
           IN /\ store' = r.store
              /\ inv' = [inv EXCEPT ![p].pc = "done",
                                    ![p].quiet = (store = inv[p].snap),
                                    ![p].calls = @ \o r.calls,
                                    ![p].result = r.result]
        /\ UNCHANGED <<rvCounter, writes>>

\* another actor creates a resource
ExternalCreate(doc) ==
    /\ writes < MaxWrites /\ RvLeft > 0
    /\ ~Present(store, ManifestId(doc))
    /\ store' = Put(store, ManifestId(doc), Created(doc, rvCounter + 1))
    /\ rvCounter' = rvCounter + 1
    /\ writes' = writes + 1
    /\ UNCHANGED inv

\* another actor (a controller, another client) rewrites a stored resource
ExternalUpdate(whats) ==
    \E id \in DOMAIN store, what \in whats :
        /\ writes < MaxWrites /\ RvLeft > 0
        /\ LET new == IF what = "spec"
                      THEN [store[id] EXCEPT !.spec.description = "dx"]
                      ELSE [store[id] EXCEPT !.status = "Ready"]
           IN store' = Put(store, id, Updated(store[id], new, rvCounter + 1))
        /\ rvCounter' = rvCounter + 1
        /\ writes' = writes + 1
        /\ UNCHANGED inv

\* another actor removes a stored resource
ExternalDelete ==
    \E id \in DOMAIN store :
        /\ writes < MaxWrites
        /\ store' = Remove(store, id)
        /\ writes' = writes + 1
        /\ UNCHANGED <<rvCounter, inv>>

\* the handler's result has gone back to the caller; the worker keeps nothing
Return(p) ==
    /\ inv[p].pc = "done"
    /\ inv' = [inv EXCEPT ![p] = Idle]
    /\ UNCHANGED <<store, rvCounter, writes>>

\* A finished invocation's result is looked at in the state its last step
\* leaves; it has no effect on any later step, so the workers move on only
\* once it has been returned.
Quiescent == \A p \in Procs : inv[p].pc # "done"

Next ==
    \/ \E p \in Procs : Quiescent /\ ApplyStart(p, ApplyArgs)
    \/ \E p \in Procs : Quiescent /\ ApplyUpdateStep(p)
    \/ \E p \in Procs : Quiescent /\ ApplyCreateStep(p)
    \/ \E p \in Procs : Return(p)
    \/ Quiescent /\ ExternalUpdate({"spec"})

Spec == Init /\ [][Next]_vars

\* One caller working through apply and diff calls one after the other (the
\* stdio transport serves one request at a time), next to a controller that
\* rewrites stored resources.
Caller == "p1"
NextSeq ==
    \/ ApplyStart(Caller, SeqApplyArgs)
    \/ ApplyUpdateStep(Caller)
    \/ ApplyCreateStep(Caller)
    \/ DiffCall(Caller, DiffArgs)
    \/ Return(Caller)
    \/ ExternalUpdate({"status"})

SpecSeq == Init /\ [][NextSeq]_vars

\* One caller validating manifests, repeating calls on the same manifest,
\* while ModelConfigs come and go in the store.
NextValidate ==
    \/ ValidateCall(Caller, ValidateArgs)
    \/ Return(Caller)
    \/ ExternalCreate(ModelConfigDoc)
    \/ ExternalDelete

SpecValidate == Init /\ [][NextValidate]_vars

\* One caller using all four tools one call after the other, on a store that
\* other actors delete from as well.
ToolManifests == {NoArg, BadArg, Yaml(AgentDoc(Nil, "d1")), Yaml(WidgetDoc)}
ToolNames == {NameArg(Nil), NameArg(""), NameArg("a"), NameArg("zz")}
NextTools ==
    \/ ValidateCall(Caller, ToolManifests \cup {Yaml(ScenarioDoc)})
    \/ DiffCall(Caller, ToolManifests)
    \/ ApplyStart(Caller, ToolManifests)
    \/ ApplyUpdateStep(Caller)
    \/ ApplyCreateStep(Caller)
    \/ DeleteStart(Caller, ToolNames)
    \/ DeleteStep(Caller)
    \/ Return(Caller)
    \/ ExternalDelete

SpecTools == Init /\ [][NextTools]_vars

\* One caller applying manifests that name no namespace, an empty one or
\* another one, or that were exported from the store earlier and carry the
\* resourceVersion of that time, while another writer updates the resources.
TargetedApplyArgs ==
    {Yaml(AgentDoc(Nil, "d1")), Yaml(AgentDoc("", "d1")),
     Yaml(AgentDoc("other", "d1")), Yaml(ExportDoc)}
NextApply ==
    \/ ApplyStart(Caller, TargetedApplyArgs)
    \/ ApplyUpdateStep(Caller)
    \/ ApplyCreateStep(Caller)
    \/ Return(Caller)
    \/ Quiescent /\ ExternalUpdate({"spec"})

SpecApply == Init /\ [][NextApply]_vars

\* One caller validating and applying an agent manifest with and without
\* spec.type (the validator rejects the second), while the resource may be
\* deleted by someone else.
UntypedAgentDoc == [AgentDoc(Nil, "d1") EXCEPT !.spec.type = Nil]
SubmitArgs == {Yaml(AgentDoc(Nil, "d1")), Yaml(UntypedAgentDoc)}
NextSubmit ==
    \/ ValidateCall(Caller, SubmitArgs)
    \/ ApplyStart(Caller, SubmitArgs)
    \/ ApplyUpdateStep(Caller)
    \/ ApplyCreateStep(Caller)
    \/ Return(Caller)
    \/ ExternalDelete

SpecSubmit == Init /\ [][NextSubmit]_vars

(***************************************************************************)
(* Properties of Apply (specification Spec).                               *)
(***************************************************************************)
ApplyDone(p) == inv[p].tool = "apply" /\ inv[p].pc = "done"
\* the invocation reached the store: its first call is Apply's Get
Reached(p) == Len(inv[p].calls) >= 1
\* the fault the store answered call i with, as the invocation saw it
FaultOf(p, i) ==
    IF i <= Len(inv[p].calls) /\ inv[p].calls[i].err = "unavailable"
    THEN "unavailable" ELSE "none"
NoFault(p) == \A i \in 1..Len(inv[p].calls) : inv[p].calls[i].err # "unavailable"

C2_DryRunState ==
    \A p \in Procs :
        (ApplyDone(p) /\ inv[p].flag) =>
            LET i == inv[p]
                wet == ApplyRun(i.snap, i.arg, FALSE, FaultOf(p, 1), FaultOf(p, 2),
                                rvCounter + 1)
            IN /\ Len(i.calls) = 2 => i.calls[2].dry
               /\ i.result.kind = "outcome" => i.result.dryRun
               /\ i.quiet =>
                    /\ store = i.snap
                    /\ i.result = [wet.result EXCEPT
                                     !.dryRun = (wet.result.kind = "outcome")]
C2_DryRunStep ==
    \A p \in Procs :
        (inv[p].tool = "apply" /\ inv[p].flag /\ inv[p].pc \in {"update", "create"}
            /\ inv'[p].pc = "done") => store' = store
C2_DryRunPure == [](C2_DryRunState) /\ [][C2_DryRunStep]_vars

C2_Witness ==
    \E p \in Procs :
        /\ ApplyDone(p) /\ inv[p].flag /\ inv[p].quiet
        /\ inv[p].result.kind = "outcome" /\ inv[p].result.action = "updated"
        /\ inv[p].result.dryRun
        /\ store = inv[p].snap

\* C3: when the resource was rewritten by somebody else after Apply's Get, so
\* that the version Apply fetched is stale at its Update, the Update step ends
\* the invocation with an error and no outcome, after that one Update call,
\* and leaves the store as the other writer left it.
C3_StaleStep ==
    \A p \in Procs :
        LET id == ApplyId(inv[p].obj)
        IN (/\ inv[p].tool = "apply" /\ inv[p].pc = "update"
            /\ inv'[p].pc = "done"
            /\ Present(store, id)
            /\ GetResourceVersion(store[id]) # GetResourceVersion(inv[p].existing))
           => /\ inv'[p].result.kind = "error"
              /\ inv'[p].result.action = ""
              /\ Len(inv'[p].calls) = 2
              /\ inv'[p].calls[2].op = "Update"
              /\ store' = store
C3_ConflictNotRetried == [][C3_StaleStep]_vars

C3_Witness ==
    \E p \in Procs :
        /\ ApplyDone(p) /\ ~inv[p].quiet /\ Len(inv[p].calls) = 2
        /\ inv[p].calls[2].op = "Update" /\ inv[p].calls[2].err = "conflict"
        /\ inv[p].result = ErrorResult("conflict")
        /\ store[ApplyId(inv[p].obj)].spec.description = "dx"

\* C4 (as claimed): whenever a store call of Apply fails (the Get with
\* anything but not-found, the Create, the Update), Apply ends there with
\* that error and no outcome; a Get that failed otherwise than not-found is
\* not followed by a Create.
C4_StoreErrorsSurface ==
    \A p \in Procs :
        ApplyDone(p) =>
            \A k \in 1..Len(inv[p].calls) :
                LET c == inv[p].calls[k]
                IN (c.err # "none" /\ ~(c.op = "Get" /\ c.err = "notfound")) =>
                       /\ inv[p].result = ErrorResult(c.err)
                       /\ Len(inv[p].calls) = k

(***************************************************************************)
(* Properties of Diff (specification SpecSeq).                             *)
(***************************************************************************)
DiffDone(p) == inv[p].tool = "diff" /\ inv[p].pc = "done"

\* C5 (as claimed): Diff answers "new" only when the store holds no resource of
\* the manifest's kind, namespace and name; when the current state cannot be
\* fetched for another reason (a store failure, a kind without an endpoint),
\* Diff answers with an error, not with "new".
C5_NewOnlyWhenAbsent ==
    \A p \in Procs :
        (DiffDone(p) /\ inv[p].arg.form = "yaml") =>
            /\ inv[p].result.kind = "new" =>
                   ~Present(inv[p].snap, ManifestId(inv[p].obj))
            /\ (\/ inv[p].calls = <<>>
                \/ inv[p].calls[1].err \notin {"none", "notfound"}) =>
                   inv[p].result.kind = "error"

\* leaves the claim lets differ: status, metadata.resourceVersion, uid, managedFields
BlankVolatile(obj) ==
    [obj EXCEPT !.status = Nil, !.metadata.resourceVersion = Nil,
                !.metadata.uid = Nil, !.metadata.managedFields = Nil]

\* C6 (as claimed): when the manifest and the stored resource of its identity
\* differ at most in status and in metadata.resourceVersion, uid and
\* managedFields, Diff reports no change.
C6_VolatileFieldsIgnored ==
    \A p \in Procs :
        (/\ DiffDone(p) /\ inv[p].arg.form = "yaml" /\ NoFault(p)
         /\ Present(inv[p].snap, ManifestId(inv[p].obj))
         /\ BlankVolatile(inv[p].obj)
                = BlankVolatile(YamlRoundTrip(inv[p].snap[ManifestId(inv[p].obj)])))
        => inv[p].result.kind = "nochange"

\* C7 (as claimed): Diff of a manifest equal to a stored resource with its
\* server-managed fields removed reports no change, and so does Diff of the
\* manifest that a successful Apply has just written.
C7_DiffIdempotent ==
    \A p \in Procs :
        (DiffDone(p) /\ inv[p].arg.form = "yaml" /\ NoFault(p)) =>
            /\ (\E id \in DOMAIN inv[p].snap :
                    inv[p].obj = StripManaged(YamlRoundTrip(inv[p].snap[id])))
                  => inv[p].result.kind = "nochange"
            /\ (/\ inv[p].past # <<>>
                /\ inv[p].past[1].tool = "apply" /\ ~inv[p].past[1].flag
                /\ inv[p].past[1].result.kind = "outcome"
                /\ Present(inv[p].snap, ManifestId(inv[p].obj))
                /\ inv[p].snap[ManifestId(inv[p].obj)] = inv[p].past[1].calls[2].got)
                  => inv[p].result.kind = "nochange"

(***************************************************************************)
(* Properties of Validate (specification SpecValidate).                    *)
(***************************************************************************)
\* a validate call that got as far as the rules
Validated(p) ==
    /\ inv[p].tool = "validate" /\ inv[p].pc = "done"
    /\ inv[p].result.kind \in {"passed", "issues"}
\* the call before it was a validate call of the same manifest text
Revalidated(p) ==
    /\ Validated(p) /\ inv[p].past # <<>>
    /\ inv[p].past[1].tool = "validate"
    /\ inv[p].past[1].result.kind \in {"passed", "issues"}

\* the fields the claim requires, per kind, with the manifest's value of each
RequiredFields(obj) ==
    {<<"apiVersion", obj.apiVersion>>, <<"kind", obj.kind>>,
     <<"metadata.name", obj.metadata.name>>}
    \cup (IF GetKind(obj) = "Agent" THEN {<<"spec.type", obj.spec.type>>} ELSE {})
    \cup (IF GetKind(obj) = "Agent" /\ obj.spec.type = "Declarative"
          THEN {<<"spec.declarative.modelConfig", obj.spec.declarative.modelConfig>>,
                <<"spec.declarative.systemMessage", obj.spec.declarative.systemMessage>>}
          ELSE {})
    \cup (IF GetKind(obj) = "ModelConfig"
          THEN {<<"spec.provider", obj.spec.provider>>, <<"spec.model", obj.spec.model>>}
          ELSE {})
    \cup (IF GetKind(obj) = "MCPServer"
          THEN {<<"spec.deployment.image", obj.spec.deployment.image>>} ELSE {})
    \cup (IF GetKind(obj) = "RemoteMCPServer"
          THEN {<<"spec.url", obj.spec.url>>} ELSE {})

ErrorOn(issues, path) ==
    \E k \in 1..Len(issues) :
        issues[k].severity = "error" /\ issues[k].field = path

\* C8: every required field of the manifest's kind that is absent or empty
\* gets an error-severity issue on exactly its path, whatever the other
\* fields, the strict flag and the store hold.
C8_RequiredFields ==
    \A p \in Procs :
        Validated(p) =>
            \A f \in RequiredFields(inv[p].obj) :
                (f[2] = Nil \/ f[2] = "") => ErrorOn(inv[p].result.issues, f[1])

C8_Witness ==
    \E p \in Procs :
        /\ Validated(p)
        /\ GetKind(inv[p].obj) = "ModelConfig"
        /\ inv[p].obj.spec.model = "" /\ inv[p].obj.spec.provider = "OpenAI"
        /\ inv[p].obj.spec.apiKeySecret = "key"
        /\ GetAPIVersion(inv[p].obj) # "" /\ GetName(inv[p].obj) # ""
        /\ inv[p].result.issues
               = <<Issue("error", "spec.model", "spec.model is required")>>

RECURSIVE IsSubseq(_, _)
IsSubseq(a, b) ==
    IF a = <<>> THEN TRUE
    ELSE IF b = <<>> THEN FALSE
    ELSE IF Head(a) = Head(b) THEN IsSubseq(Tail(a), Tail(b))
    ELSE IsSubseq(a, Tail(b))
IsError(i) == i.severity = "error"
\* both calls made the same lookups, and each ended the same way in both
SameLookups(c1, c2) ==
    /\ Len(c1) = Len(c2)
    /\ \A k \in 1..Len(c1) :
          c1[k].id = c2[k].id /\ (c1[k].err = "none") = (c2[k].err = "none")

\* C9: of two Validate calls of one manifest whose lookups ended the same
\* way, one with strict off and one with strict on, the issues of the first
\* are a subsequence of the issues of the second, both hold the same errors
\* in the same order, and every issue only the strict call reports is a warning.
C9_StrictOnlyAddsWarnings ==
    \A p \in Procs :
        (Revalidated(p) /\ inv[p].flag # inv[p].past[1].flag
            /\ SameLookups(inv[p].calls, inv[p].past[1].calls)) =>
            LET on == IF inv[p].flag THEN inv[p].result.issues
                      ELSE inv[p].past[1].result.issues
                off == IF inv[p].flag THEN inv[p].past[1].result.issues
                       ELSE inv[p].result.issues
            IN /\ IsSubseq(off, on)
               /\ SelectSeq(off, IsError) = SelectSeq(on, IsError)
               /\ \A k \in 1..Len(on) :
                     (\A j \in 1..Len(off) : off[j] # on[k]) =>
                         on[k].severity = "warning"

C9_Witness ==
    \E p \in Procs :
        /\ Revalidated(p) /\ inv[p].flag /\ ~inv[p].past[1].flag
        /\ SameLookups(inv[p].calls, inv[p].past[1].calls)
        /\ Len(inv[p].calls) = 1
        /\ HasErrors(inv[p].result.issues)
        /\ Len(inv[p].past[1].result.issues) + 2 = Len(inv[p].result.issues)

NoDuplicates(issues) ==
    \A j, k \in 1..Len(issues) : issues[j] = issues[k] => j = k

\* C10 (as claimed): two Validate calls of the same manifest with the same
\* strict flag return the same issue sequence, whatever the store holds at
\* each call, and no sequence holds an issue twice.
C10_SameInputSameIssues ==
    \A p \in Procs :
        /\ Validated(p) => NoDuplicates(inv[p].result.issues)
        /\ (Revalidated(p) /\ inv[p].flag = inv[p].past[1].flag) =>
               inv[p].result.issues = inv[p].past[1].result.issues

\* C10 (amended): two Validate calls of the same manifest with the same strict
\* flag whose ModelConfig lookups ended the same way return the same issue
\* sequence, and no sequence holds an issue twice.
C10_SameLookupSameIssues ==
    \A p \in Procs :
        /\ Validated(p) => NoDuplicates(inv[p].result.issues)
        /\ (Revalidated(p) /\ inv[p].flag = inv[p].past[1].flag
               /\ SameLookups(inv[p].calls, inv[p].past[1].calls)) =>
               inv[p].result.issues = inv[p].past[1].result.issues

C10_Witness ==
    \E p \in Procs :
        /\ Revalidated(p) /\ inv[p].flag = inv[p].past[1].flag
        /\ Len(inv[p].calls) = 1 /\ inv[p].calls[1].err = "notfound"
        /\ inv[p].past[1].calls = inv[p].calls
        /\ Len(inv[p].result.issues) >= 2
        /\ inv[p].result.issues = inv[p].past[1].result.issues

\* the warnings of a call, as the set of the fields they are on
WarningFields(issues) ==
    {issues[k].field : k \in {j \in 1..Len(issues) : issues[j].severity = "warning"}}

\* C11 (as claimed): with strict off, the only warnings Validate gives are the
\* unknown-kind warning and the warnings on an unexpected enumerated value.
C11_NonStrictWarnings ==
    \A p \in Procs :
        (Validated(p) /\ ~inv[p].flag) =>
            WarningFields(inv[p].result.issues) \subseteq {"kind", "spec.transportType"}

\* C11 (amended): with strict off, the only warnings Validate gives are the
\* unknown-kind warning, the unexpected-transportType warning and the warning
\* that the referenced ModelConfig was not found; the warnings on a short
\* systemMessage and on a missing description are given only with strict on.
C11_NonStrictWarningsAndLookup ==
    \A p \in Procs :
        Validated(p) =>
            /\ ~inv[p].flag =>
                  WarningFields(inv[p].result.issues)
                      \subseteq {"kind", "spec.transportType",
                                 "spec.declarative.modelConfig"}
            /\ (WarningFields(inv[p].result.issues)
                   \cap {"spec.declarative.systemMessage", "spec.description"} # {})
                 => inv[p].flag

C11_Witness ==
    \E p \in Procs :
        /\ Validated(p) /\ ~inv[p].flag
        /\ NestedString(inv[p].obj.spec.type).val = "Declarative"
        /\ inv[p].obj.spec.declarative.systemMessage = "short"
        /\ inv[p].obj.spec.description = Nil
        /\ Len(inv[p].calls) = 1 /\ inv[p].calls[1].err = "notfound"
        /\ WarningFields(inv[p].result.issues) = {"spec.declarative.modelConfig"}

\* how many issues of a severity a call reports on a field
CountOn(issues, sev, field) ==
    Cardinality({k \in 1..Len(issues) :
                    issues[k].severity = sev /\ issues[k].field = field})

\* C12: a ModelConfig with a non-empty spec.provider gets exactly one error on
\* spec.provider when the value is outside the six providers and none when it
\* is one of them; a RemoteMCPServer with a non-empty spec.protocol gets
\* exactly one error on spec.protocol when the value is neither
\* STREAMABLE_HTTP nor SSE and none when it is one of the two.
C12_EnumRejection ==
    \A p \in Procs :
        Validated(p) =>
            LET obj == inv[p].obj
                provider == NestedString(obj.spec.provider).val
                protocol == NestedString(obj.spec.protocol).val
            IN /\ (GetKind(obj) = "ModelConfig" /\ provider # "") =>
                      CountOn(inv[p].result.issues, "error", "spec.provider")
                          = IF provider \in {"OpenAI", "AzureOpenAI", "Anthropic",
                                             "Gemini", "Ollama", "Custom"}
                            THEN 0 ELSE 1
               /\ (GetKind(obj) = "RemoteMCPServer" /\ protocol # "") =>
                      CountOn(inv[p].result.issues, "error", "spec.protocol")
                          = IF protocol \in {"STREAMABLE_HTTP", "SSE"} THEN 0 ELSE 1

C12_Witness ==
    \E p \in Procs :
        /\ Validated(p) /\ GetKind(inv[p].obj) = "ModelConfig"
        /\ inv[p].obj.spec.provider = "Bogus"
        /\ inv[p].obj.spec.model = "gpt-4" /\ inv[p].obj.spec.apiKeySecret = "key"
        /\ GetAPIVersion(inv[p].obj) # "" /\ GetName(inv[p].obj) # ""
        /\ Len(inv[p].result.issues) = 1
        /\ inv[p].result.issues[1].severity = "error"
        /\ inv[p].result.issues[1].field = "spec.provider"

\* C13: Validate with strict on of the Declarative agent "x" that names the
\* ModelConfig "missing-mc", has the system message "short" and no
\* description, while the store holds no ModelConfig "missing-mc", returns
\* exactly three issues, all warnings: on spec.declarative.modelConfig, on
\* spec.declarative.systemMessage and on spec.description.
C13_ScenarioThreeWarnings ==
    \A p \in Procs :
        (/\ Validated(p) /\ inv[p].flag
         /\ inv[p].arg = Yaml(ScenarioDoc)
         /\ ~Present(inv[p].snap, Id("ModelConfig", DefaultNamespace, "missing-mc")))
        => /\ Len(inv[p].result.issues) = 3
           /\ ~HasErrors(inv[p].result.issues)
           /\ WarningFields(inv[p].result.issues)
                  = {"spec.declarative.modelConfig",
                     "spec.declarative.systemMessage", "spec.description"}
           /\ \A f \in WarningFields(inv[p].result.issues) :
                  CountOn(inv[p].result.issues, "warning", f) = 1

C13_Witness ==
    \E p \in Procs :
        /\ Validated(p) /\ inv[p].flag /\ inv[p].arg = Yaml(ScenarioDoc)
        /\ Len(inv[p].calls) = 1 /\ inv[p].calls[1].err = "notfound"
        /\ inv[p].calls[1].id = Id("ModelConfig", DefaultNamespace, "missing-mc")
        /\ Len(inv[p].result.issues) = 3
        /\ inv[p].result.action = "can be applied"

\* the fields the three global checks report on
GlobalFields == {"apiVersion", "kind", "metadata.name"}

\* C14: for a manifest whose kind is non-empty and not one of the four kinds,
\* Validate runs no rule set of a kind (no issue on a spec field, no lookup),
\* reports exactly one issue on kind, a warning, and, when apiVersion and
\* metadata.name are there, nothing else.
C14_UnknownKindOneWarning ==
    \A p \in Procs :
        (Validated(p) /\ GetKind(inv[p].obj) # ""
            /\ GetKind(inv[p].obj) \notin {"Agent", "ModelConfig", "MCPServer",
                                           "RemoteMCPServer"}) =>
            LET issues == inv[p].result.issues
            IN /\ CountOn(issues, "warning", "kind") = 1
               /\ CountOn(issues, "error", "kind") = 0
               /\ \A k \in 1..Len(issues) : issues[k].field \in GlobalFields
               /\ inv[p].calls = <<>>
               /\ (GetAPIVersion(inv[p].obj) # "" /\ GetName(inv[p].obj) # "")
                     => Len(issues) = 1

C14_Witness ==
    \E p \in Procs :
        /\ Validated(p) /\ GetKind(inv[p].obj) = "Widget"
        /\ GetAPIVersion(inv[p].obj) # "" /\ GetName(inv[p].obj) = "x"
        /\ Len(inv[p].result.issues) = 1
        /\ inv[p].result.issues[1].severity = "warning"
        /\ inv[p].result.issues[1].field = "kind"
        /\ inv[p].result.action = "can be applied"

\* a validate call whose ModelConfig lookup failed
LookupFailed(p) ==
    /\ inv[p].tool = "validate" /\ inv[p].pc = "done"
    /\ Len(inv[p].calls) = 1 /\ inv[p].calls[1].err # "none"

\* C15: when the ModelConfig lookup of a Validate call fails, with not-found
\* or with any other store error, the call still returns an issue list, with
\* exactly one warning and no error on spec.declarative.modelConfig, and with
\* the outcome of the rules that follow: the error on a missing systemMessage,
\* and with strict on the warnings on a short systemMessage and on a missing
\* description.
C15_LookupFailureIsWarning ==
    \A p \in Procs :
        LookupFailed(p) =>
            LET issues == inv[p].result.issues
                sm == NestedString(inv[p].obj.spec.declarative.systemMessage).val
                de == NestedString(inv[p].obj.spec.description).val
            IN /\ inv[p].result.kind = "issues"
               /\ CountOn(issues, "warning", "spec.declarative.modelConfig") = 1
               /\ CountOn(issues, "error", "spec.declarative.modelConfig") = 0
               /\ CountOn(issues, "error", "spec.declarative.systemMessage")
                      = IF sm = "" THEN 1 ELSE 0
               /\ CountOn(issues, "warning", "spec.declarative.systemMessage")
                      = IF inv[p].flag /\ sm # "" /\ Len(sm) < 100 THEN 1 ELSE 0
               /\ CountOn(issues, "warning", "spec.description")
                      = IF inv[p].flag /\ de = "" THEN 1 ELSE 0

C15_Witness ==
    \E p \in Procs :
        /\ LookupFailed(p) /\ inv[p].calls[1].err = "unavailable"
        /\ Present(inv[p].snap, inv[p].calls[1].id)
        /\ inv[p].flag
        /\ inv[p].obj.spec.declarative.systemMessage = Nil
        /\ inv[p].obj.spec.description = Nil
        /\ GetAPIVersion(inv[p].obj) # "" /\ GetName(inv[p].obj) # ""
        /\ Len(inv[p].result.issues) = 3
        /\ inv[p].result.issues[1].severity = "warning"
        /\ inv[p].result.issues[2].field = "spec.declarative.systemMessage"
        /\ inv[p].result.issues[3].field = "spec.description"

\* the fields of the rule set of a kind, in the order the claim gives them; a
\* kind without a rule set has only the unknown-kind warning, on kind
RuleOrder(kind) ==
    CASE kind = "Agent" ->
            <<"spec.type", "spec.declarative.modelConfig",
              "spec.declarative.systemMessage", "spec.description">>
      [] kind = "ModelConfig" -> <<"spec.provider", "spec.model", "spec.apiKeySecret">>
      [] kind = "MCPServer" -> <<"spec.deployment.image", "spec.transportType">>
      [] kind = "RemoteMCPServer" -> <<"spec.url", "spec.protocol">>
      [] OTHER -> <<"kind">>
GlobalOrder == <<"apiVersion", "kind", "metadata.name">>
IndexIn(seq, x) ==
    IF \E k \in 1..Len(seq) : seq[k] = x
    THEN CHOOSE k \in 1..Len(seq) : seq[k] = x
    ELSE Len(seq) + 1
\* the place of an issue in the claimed order: the global checks report
\* errors only, everything else comes from the rules of the kind
PlaceOf(issue, kind) ==
    IF issue.severity = "error" /\ issue.field \in GlobalFields
    THEN IndexIn(GlobalOrder, issue.field)
    ELSE Len(GlobalOrder) + IndexIn(RuleOrder(kind), issue.field)

\* C16: in every Validate result the issues come in the claimed order: those
\* of the global checks on apiVersion, kind, metadata.name, then those of the
\* rules of the manifest's kind in their rule order, each place taken at most
\* once and no issue outside these places.
C16_IssueOrder ==
    \A p \in Procs :
        Validated(p) =>
            LET issues == inv[p].result.issues
                kind == GetKind(inv[p].obj)
            IN /\ \A k \in 1..Len(issues) :
                     PlaceOf(issues[k], kind)
                         <= Len(GlobalOrder) + Len(RuleOrder(kind))
               /\ \A j, k \in 1..Len(issues) :
                     j < k => PlaceOf(issues[j], kind) < PlaceOf(issues[k], kind)

C16_Witness ==
    \E p \in Procs :
        /\ Validated(p) /\ GetKind(inv[p].obj) = "ModelConfig"
        /\ Len(inv[p].result.issues) = 5
        /\ [k \in 1..5 |-> inv[p].result.issues[k].field]
               = <<"apiVersion", "metadata.name", "spec.provider", "spec.model",
                   "spec.apiKeySecret">>

(***************************************************************************)
(* Properties of the tool boundary (specification SpecTools).              *)
(***************************************************************************)
Done(p) == inv[p].pc = "done"
ManifestTools == {"validate", "diff", "apply"}
\* the invocation came without its required argument, or with an empty one
EmptyInput(p) ==
    \/ inv[p].tool \in ManifestTools /\ inv[p].arg.form = "empty"
    \/ inv[p].tool = "delete" /\ inv[p].arg.name \in {Nil, ""}

\* C17: validate_manifest, diff_manifest and apply_manifest invoked without a
\* manifest or with an empty one, and delete_agent invoked without a name or
\* with an empty one, return an error result naming the argument and make no
\* store call.
C17_InputErrorNoStoreCall ==
    \A p \in Procs :
        (Done(p) /\ EmptyInput(p)) =>
            /\ inv[p].result
                   = ErrorResult(IF inv[p].tool = "delete" THEN "name is required"
                                 ELSE "manifest is required")
            /\ inv[p].calls = <<>>

C17_Witness ==
    \E p \in Procs :
        /\ Done(p) /\ inv[p].tool = "delete" /\ inv[p].arg = NameArg(Nil)
        /\ inv[p].result.kind = "error" /\ inv[p].calls = <<>>
        /\ Present(store, Id("Agent", DefaultNamespace, "a"))

\* the invocation's manifest text does not decode
ParseFailure(i) == i.tool \in ManifestTools /\ i.arg.form = "malformed"

\* C18: Validate, Diff and Apply of a manifest text that does not decode
\* return a single error result, with no issue list and no store call, and
\* the step that handles the call leaves the store as it was.
C18_ParseState ==
    \A p \in Procs :
        (Done(p) /\ ParseFailure(inv[p])) =>
            /\ inv[p].result = ErrorResult("failed to parse manifest")
            /\ inv[p].result.issues = <<>>
            /\ inv[p].calls = <<>>
C18_ParseStep ==
    \A p \in Procs :
        (inv'[p] # inv[p] /\ ParseFailure(inv'[p])) =>
            /\ inv'[p].pc = "done"
            /\ store' = store
C18_ParseErrorAborts == [](C18_ParseState) /\ [][C18_ParseStep]_vars

C18_Witness ==
    \E p \in Procs :
        /\ Done(p) /\ inv[p].tool = "apply" /\ inv[p].arg = BadArg
        /\ inv[p].result.kind = "error" /\ inv[p].calls = <<>>
        /\ Present(store, Id("Agent", DefaultNamespace, "a"))

\* the payloads a handler returns: an error result or one of the text results
Payloads ==
    {"error", "outcome", "text", "new", "nochange", "diff", "passed", "issues"}
\* the last store call of the invocation failed
EndedOnFailedCall(p) ==
    inv[p].calls # <<>> /\ inv[p].calls[Len(inv[p].calls)].err # "none"

C20_DeleteForwardsDryRun ==
    \A p \in Procs :
        (/\ Done(p) /\ inv[p].tool = "delete"
         /\ Len(inv[p].calls) >= 1 /\ inv[p].calls[1].err = "none") =>
            /\ Len(inv[p].calls) = 2
            /\ inv[p].calls[2].op = "Delete"
            /\ inv[p].calls[2].dry = inv[p].flag
            /\ (inv[p].flag /\ inv[p].quiet) => Present(store, inv[p].calls[1].id)

(***************************************************************************)
(* Further properties of Apply (specification SpecApply).                  *)
(***************************************************************************)
\* the namespace the manifest of the invocation asks for
TargetNamespace(p) ==
    LET ns == NestedString(Unmarshal(inv[p].arg).obj.metadata.namespace).val
    IN IF ns # "" THEN ns ELSE DefaultNamespace

\* C21: an Apply addresses one namespace, the manifest's metadata.namespace
\* when it is there and not empty and the configured one otherwise: its Get
\* and its Create or Update go to that namespace, the object it sends carries
\* it, and the outcome reports it.
C21_ApplyNamespace ==
    \A p \in Procs :
        (ApplyDone(p) /\ Reached(p)) =>
            /\ \A k \in 1..Len(inv[p].calls) :
                  /\ inv[p].calls[k].id[2] = TargetNamespace(p)
                  /\ inv[p].calls[k].op # "Get" =>
                        GetNamespace(inv[p].calls[k].sent) = TargetNamespace(p)
            /\ inv[p].result.kind = "outcome" =>
                  inv[p].result.namespace = TargetNamespace(p)

C21_Witness ==
    \E p \in Procs :
        /\ ApplyDone(p) /\ inv[p].arg = Yaml(AgentDoc("other", "d1"))
        /\ ~inv[p].flag /\ inv[p].result.action = "updated"
        /\ inv[p].result.namespace = "other"
        /\ inv[p].calls[1].id = Id("Agent", "other", "a")
        /\ inv[p].calls[2].id = Id("Agent", "other", "a")

\* the resourceVersion the manifest of the invocation carries ("" if none)
ManifestVersion(p) == GetResourceVersion(Unmarshal(inv[p].arg).obj)

\* C26: the object Apply sends to Update carries the resourceVersion of
\* Apply's own Get, whatever version the manifest carried; so an Apply that
\* nobody interferes with and that the store does not fail updates a resource
\* that is there, also from a manifest carrying an older version, and when it
\* persists the store then holds the manifest's spec.
C26_ManifestVersionDiscarded ==
    \A p \in Procs :
        (ApplyDone(p) /\ Reached(p)) =>
            LET i == inv[p]
                id == ApplyId(i.obj)
            IN /\ (Len(i.calls) = 2 /\ i.calls[2].op = "Update") =>
                      GetResourceVersion(i.calls[2].sent)
                          = GetResourceVersion(i.calls[1].got)
               /\ (i.quiet /\ NoFault(p) /\ Present(i.snap, id)) =>
                      /\ i.result.kind = "outcome" /\ i.result.action = "updated"
                      /\ ~i.flag =>
                            /\ store[id].spec = i.obj.spec
                            /\ GetResourceVersion(store[id])
                                   # GetResourceVersion(i.snap[id])

C26_Witness ==
    \E p \in Procs :
        /\ ApplyDone(p) /\ ~inv[p].flag /\ inv[p].quiet
        /\ inv[p].arg = Yaml(ExportDoc) /\ ManifestVersion(p) = "1"
        /\ Present(inv[p].snap, ApplyId(inv[p].obj))
        /\ GetResourceVersion(inv[p].snap[ApplyId(inv[p].obj)]) = "2"
        /\ inv[p].snap[ApplyId(inv[p].obj)].spec.description = "dx"
        /\ inv[p].result.action = "updated"
        /\ store[ApplyId(inv[p].obj)].spec.description = "d1"

(***************************************************************************)
(* Further properties of Validate (specification SpecValidate).            *)
(***************************************************************************)
\* C22: validating a ModelConfig gives an error on spec.apiKeySecret exactly
\* when the secret is missing or empty and spec.provider is not "Ollama" (a
\* missing provider and one outside the enumerated set included), and never
\* more than one issue on that field.
C22_ApiKeySecretRule ==
    \A p \in Procs :
        (Validated(p) /\ GetKind(inv[p].obj) = "ModelConfig") =>
            LET secret == NestedString(inv[p].obj.spec.apiKeySecret).val
                provider == NestedString(inv[p].obj.spec.provider).val
            IN /\ CountOn(inv[p].result.issues, "error", "spec.apiKeySecret")
                      = IF secret = "" /\ provider # "Ollama" THEN 1 ELSE 0
               /\ CountOn(inv[p].result.issues, "warning", "spec.apiKeySecret") = 0

C22_Witness ==
    \E p \in Procs :
        /\ Validated(p) /\ GetKind(inv[p].obj) = "ModelConfig"
        /\ inv[p].obj.spec.provider = "Bogus" /\ inv[p].obj.spec.apiKeySecret = ""
        /\ inv[p].obj.spec.model = "gpt-4"
        /\ GetAPIVersion(inv[p].obj) # "" /\ GetName(inv[p].obj) # ""
        /\ Len(inv[p].result.issues) = 2
        /\ inv[p].result.issues[2].field = "spec.apiKeySecret"
        /\ inv[p].result.issues[2].severity = "error"

(***************************************************************************)
(* Apply and the validator (specification SpecSubmit).                     *)
(***************************************************************************)
\* what Validate says of the manifest of the invocation, on the store the
\* invocation started from
ValidateErrors(p) ==
    HasErrors(handleValidateManifest(inv[p].snap, inv[p].arg, "true", "none")
                  .result.issues)

\* C23: an Apply of a manifest of a known kind that Validate reports errors
\* for goes to the store all the same: it makes its Get and then submits the
\* manifest's object with a Create or an Update, to the manifest's identity
\* only; undisturbed and with the store not failing it reports created when
\* the identity was absent and updated when it was there; and the result is
\* the one Apply computes from the store and the manifest alone, whatever
\* call came before.
C23_ApplyDoesNotValidate ==
    \A p \in Procs :
        ApplyDone(p) =>
            LET i == inv[p]
                alone == ApplyRun(i.snap, i.arg, i.flag, FaultOf(p, 1),
                                  FaultOf(p, 2), rvCounter + 1)
            IN /\ Len(i.calls) >= 1
               /\ (ValidateErrors(p) /\ i.calls[1].err # "unavailable") =>
                  /\ Len(i.calls) = 2
                  /\ i.calls[2].op \in {"Create", "Update"}
                  /\ i.calls[2].sent.spec = Unmarshal(i.arg).obj.spec
                  /\ (i.quiet /\ NoFault(p)) =>
                        /\ i.result.kind = "outcome"
                        /\ i.result.action
                               = IF Present(i.snap, ApplyId(i.obj))
                                 THEN "updated" ELSE "created"
               /\ \A k \in 1..Len(i.calls) : i.calls[k].id = ApplyId(i.obj)
               /\ i.quiet => i.result = alone.result

C23_Witness ==
    \E p \in Procs :
        /\ ApplyDone(p) /\ ~inv[p].flag /\ inv[p].arg = Yaml(UntypedAgentDoc)
        /\ inv[p].past # <<>> /\ inv[p].past[1].tool = "validate"
        /\ HasErrors(inv[p].past[1].result.issues)
        /\ inv[p].result.action = "created"
        /\ Present(store, ApplyId(inv[p].obj))
        /\ store[ApplyId(inv[p].obj)].spec.type = Nil

(***************************************************************************)
(* Further properties of the tools (specification SpecTools).              *)
(***************************************************************************)
\* a finished Validate or Diff
ReadDone(p) == inv[p].tool \in {"validate", "diff"} /\ inv[p].pc = "done"

\* the manifest of the invocation decodes and names a kind the client knows
Resolvable(p) == Unmarshal(inv[p].arg).ok /\ gvrFromKind(GetKind(inv[p].obj)).ok

\* every store call of a Validate or Diff is a Get; a Validate makes at most
\* one, of a ModelConfig, and only for a Declarative agent whose modelConfig
\* is not empty; the result is the one the handler computes from the store
\* and the arguments alone
C24_OnlyGets ==
    \A p \in Procs :
        ReadDone(p) =>
            LET i == inv[p]
            IN /\ \A k \in 1..Len(i.calls) : i.calls[k].op = "Get"
               /\ Len(i.calls) <= 1
               /\ (i.tool = "validate" /\ i.calls # <<>>) =>
                     /\ i.calls[1].id[1] = "ModelConfig"
                     /\ GetKind(i.obj) = "Agent"
                     /\ i.obj.spec.type = "Declarative"
                     /\ i.obj.spec.declarative.modelConfig \notin {Nil, ""}
               /\ i.tool = "diff" =>
                     i.result = handleDiffManifest(i.snap, i.arg, FaultOf(p, 1)).result
               /\ i.tool = "validate" =>
                     \E raw \in StrictArgs :
                         /\ StrictOf(raw) = i.flag
                         /\ i.result = handleValidateManifest(i.snap, i.arg, raw,
                                                              FaultOf(p, 1)).result
\* the step that handles a Validate or a Diff leaves the store as it was
C24_ReadStep ==
    \A p \in Procs :
        (inv'[p] # inv[p] /\ inv'[p].tool \in {"validate", "diff"}) =>
            /\ store' = store
            /\ rvCounter' = rvCounter
            /\ inv'[p].snap = store

\* C24 (as stated): Validate and Diff issue only Get calls, Validate at most
\* one (a ModelConfig Get, only for a Declarative agent with a non-empty
\* modelConfig) and Diff exactly one, and leave the store as it was.
C24_ReadOnlyDiffAlwaysGets ==
    /\ [](C24_OnlyGets /\ \A p \in Procs :
              (ReadDone(p) /\ inv[p].tool = "diff") => Len(inv[p].calls) = 1)
    /\ [][C24_ReadStep]_vars

\* C24 (amended): Validate and Diff issue only Get calls, Validate at most
\* one (a ModelConfig Get, only for a Declarative agent with a non-empty
\* modelConfig) and Diff at most one: exactly one when the manifest decodes
\* and its kind is known, none otherwise; they leave the store as it was.
C24_ReadOnly ==
    /\ [](C24_OnlyGets /\ \A p \in Procs :
              (ReadDone(p) /\ inv[p].tool = "diff") =>
                  Len(inv[p].calls) = (IF Resolvable(p) THEN 1 ELSE 0))
    /\ [][C24_ReadStep]_vars

C24_Witness ==
    \E p \in Procs :
        /\ ReadDone(p) /\ inv[p].tool = "diff" /\ Len(inv[p].calls) = 1
        /\ inv[p].result.kind = "diff"
        /\ inv[p].past # <<>> /\ inv[p].past[1].tool = "validate"
        /\ store = inv[p].snap /\ store # EmptyStore

(***************************************************************************)
(* Diff against Apply (specification SpecSeq).                             *)
(***************************************************************************)
\* what an undisturbed Apply of the manifest of invocation p reports on the
\* store the invocation started from, the store answering every call
WouldApply(p) ==
    ApplyRun(inv[p].snap, inv[p].arg, FALSE, "none", "none", rvCounter + 1).result

\* C25: a Diff that the store answered reports "new" exactly when Apply of
\* the same manifest on the same store would report created, and a diff or
\* no change exactly when Apply would report updated, also for a manifest
\* that names a namespace other than the configured one.
C25_DiffAgreesWithApply ==
    \A p \in Procs :
        (inv[p].tool = "diff" /\ inv[p].pc = "done" /\ NoFault(p)) =>
            /\ inv[p].result.kind = "new" <=> WouldApply(p).action = "created"
            /\ inv[p].result.kind \in {"diff", "nochange"}
                   <=> WouldApply(p).action = "updated"

\* a Diff of a manifest for namespace "other" that finds the agent of the
\* configured namespace and reports a diff, where Apply would create other/a
C25_OtherNamespace ==
    \E p \in Procs :
        /\ inv[p].tool = "diff" /\ inv[p].pc = "done" /\ NoFault(p)
        /\ inv[p].arg = Yaml(AgentDoc("other", "d1"))
        /\ Len(inv[p].calls) = 1
        /\ inv[p].calls[1].id = Id("Agent", DefaultNamespace, "a")
        /\ inv[p].result.kind \in {"diff", "nochange"}
        /\ ~Present(inv[p].snap, Id("Agent", "other", "a"))
        /\ WouldApply(p).action = "created"
\* a Diff that reports "new" for other/a although it is stored
C25_OtherNamespaceNew ==
    \E p \in Procs :
        /\ inv[p].tool = "diff" /\ inv[p].pc = "done" /\ NoFault(p)
        /\ inv[p].arg = Yaml(AgentDoc("other", "d1"))
        /\ inv[p].result.kind = "new"
        /\ Present(inv[p].snap, Id("Agent", "other", "a"))
        /\ WouldApply(p).action = "updated"
\* a Diff that reports "new" for a manifest Apply refuses
C25_UnknownKindNew ==
    \E p \in Procs :
        /\ inv[p].tool = "diff" /\ inv[p].pc = "done"
        /\ inv[p].result.kind = "new"
        /\ WouldApply(p).kind = "error"

(***************************************************************************)
(* Interleaved Apply invocations (specification Spec).                     *)
(***************************************************************************)
\* invocation p takes the second step of an Apply whose Get found nothing,
\* and the store answers the call
CreateAnswered(p) ==
    /\ inv[p].tool = "apply" /\ inv[p].pc = "create" /\ inv'[p].pc = "done"
    /\ inv[p].calls[1].err = "notfound"
    /\ inv'[p].calls[Len(inv'[p].calls)].err # "unavailable"

\* C27: of the Apply invocations that found an identity absent, the one whose
\* Create reaches the store first creates the resource and reports created;
\* a Create that arrives once the resource is there is refused: that
\* invocation ends with an error result, makes no Update, and leaves the
\* store (the first creator's content) as it is.
C27_CreateStep ==
    \A p \in Procs :
        CreateAnswered(p) =>
            LET id == ApplyId(inv[p].obj)
                last == inv'[p].calls[2]
            IN /\ Len(inv'[p].calls) = 2 /\ last.op = "Create"
               /\ Present(store, id) =>
                     /\ last.err = "exists"
                     /\ inv'[p].result.kind = "error"
                     /\ inv'[p].result.action \notin {"created", "updated"}
                     /\ store' = store
               /\ ~Present(store, id) =>
                     /\ last.err = "none"
                     /\ inv'[p].result.action = "created"
                     /\ ~inv[p].flag =>
                           /\ DOMAIN store' = DOMAIN store \cup {id}
                           /\ store'[id].spec = inv[p].obj.spec
                           /\ \A q \in DOMAIN store : store'[q] = store[q]
C27_CreateRace == [][C27_CreateStep]_vars

\* the second of two interleaved invocations has been refused, and the store
\* holds the description the first one sent
C27_Witness ==
    \E p \in Procs :
        /\ ApplyDone(p) /\ ~inv[p].flag /\ Len(inv[p].calls) = 2
        /\ inv[p].calls[1].err = "notfound"
        /\ inv[p].calls[2].op = "Create" /\ inv[p].calls[2].err = "exists"
        /\ inv[p].result.kind = "error"
        /\ inv[p].obj.spec.description = "d2"
        /\ Present(store, ApplyId(inv[p].obj))
        /\ store[ApplyId(inv[p].obj)].spec.description = "d1"
        /\ Cardinality(DOMAIN store) = 1

\* the store calls of an Apply, so far or in all: a Get first, then at most
\* one Create or Update; created is reported only after the invocation's own
\* Create was accepted, updated only after its own Update was
ApplyCallShape(p) ==
    LET i == inv[p]
    IN /\ Len(i.calls) <= 2
       /\ Len(i.calls) >= 1 => i.calls[1].op = "Get"
       /\ Len(i.calls) = 2 => i.calls[2].op \in {"Create", "Update"}
       /\ i.pc \in {"create", "update"} => Len(i.calls) = 1
       /\ i.result.action = "created" =>
             /\ i.pc = "done" /\ Len(i.calls) = 2
             /\ i.calls[2].op = "Create" /\ i.calls[2].err = "none"
       /\ i.result.action = "updated" =>
             /\ i.pc = "done" /\ Len(i.calls) = 2
             /\ i.calls[2].op = "Update" /\ i.calls[2].err = "none"

\* C28 (as stated): every Apply invocation makes exactly one Get, followed
\* by at most one Create or Update, and reports created (updated) only when
\* its own Create (Update) succeeded.
C28_AlwaysOneGet ==
    \A p \in Procs :
        inv[p].tool = "apply" => (ApplyCallShape(p) /\ Len(inv[p].calls) >= 1)

\* C28 (amended): an Apply invocation whose manifest is not empty, decodes
\* and names a known kind makes exactly one Get, followed by at most one
\* Create or Update; any other Apply makes no store call; created (updated)
\* is reported only when the invocation's own Create (Update) succeeded.
C28_OneGetThenOneWrite ==
    \A p \in Procs :
        inv[p].tool = "apply" =>
            /\ ApplyCallShape(p)
            /\ Len(inv[p].calls) >= 1
                   <=> (Unmarshal(inv[p].arg).ok
                        /\ gvrFromObject(Unmarshal(inv[p].arg).obj).ok)

C28_Witness ==
    \E p \in Procs :
        /\ ApplyDone(p) /\ ~inv[p].flag /\ Len(inv[p].calls) = 2
        /\ inv[p].calls[1].op = "Get" /\ inv[p].calls[1].err = "none"
        /\ inv[p].calls[2].op = "Update" /\ inv[p].calls[2].err = "conflict"
        /\ inv[p].result.kind = "error"

\* the invocation's manifest decodes, carries apiVersion and metadata.name,
\* and names a kind that is not empty and not one of the four known ones
UnknownKind(i) ==
    /\ Unmarshal(i.arg).ok
    /\ GetKind(i.obj) \notin {"", "Agent", "ModelConfig", "MCPServer", "RemoteMCPServer"}
    /\ i.obj.apiVersion \notin {Nil, ""}
    /\ GetName(i.obj) # ""

\* C29: Apply of a manifest of an unknown kind returns the unknown-kind error
\* without any store call, and the step leaves the store as it was, although
\* Validate of the same manifest reports no error, only the unknown-kind
\* warning.
C29_UnknownKindState ==
    \A p \in Procs :
        (Done(p) /\ UnknownKind(inv[p])) =>
            /\ inv[p].tool = "apply" =>
                  /\ inv[p].result = ErrorResult("unknown kind")
                  /\ inv[p].calls = <<>>
            /\ inv[p].tool = "validate" =>
                  /\ ~HasErrors(inv[p].result.issues)
                  /\ Len(inv[p].result.issues) = 1
                  /\ inv[p].result.issues[1].severity = "warning"
                  /\ inv[p].result.issues[1].field = "kind"
                  /\ inv[p].calls = <<>>
C29_UnknownKindStep ==
    \A p \in Procs :
        (inv'[p] # inv[p] /\ inv'[p].tool = "apply" /\ UnknownKind(inv'[p])) =>
            /\ inv'[p].pc = "done"
            /\ store' = store
C29_ApplyRefusesUnknownKind ==
    [](C29_UnknownKindState) /\ [][C29_UnknownKindStep]_vars

C29_Witness ==
    \E p \in Procs :
        /\ ApplyDone(p) /\ UnknownKind(inv[p]) /\ ~inv[p].flag
        /\ inv[p].result.kind = "error" /\ inv[p].calls = <<>>
        /\ inv[p].past # <<>> /\ inv[p].past[1].tool = "validate"
        /\ ~HasErrors(inv[p].past[1].result.issues)
        /\ Len(inv[p].past[1].result.issues) = 1
        /\ store # EmptyStore

\* a delete_agent invocation with a name and dry_run=false
RealDelete(i) == i.tool = "delete" /\ ~i.flag /\ NameOf(i.arg) # ""
SaysDeleted(i) == i.result.kind = "text" /\ i.result.action = "deleted"

\* C30: delete_agent with a name and dry_run=false Gets the agent and then
\* Deletes it.  When the Get does not find the agent the result is an error
\* and no Delete is issued; when the agent is gone by the time of the Delete
\* the store's error comes back as an error result and the store is left as
\* it is; the deletion is reported only when the invocation's own Delete
\* was accepted.
C30_DeleteState ==
    \A p \in Procs :
        RealDelete(inv[p]) =>
            LET i == inv[p]
                id == Id("Agent", DefaultNamespace, NameOf(i.arg))
            IN /\ Len(i.calls) \in {1, 2}
               /\ i.calls[1].op = "Get" /\ i.calls[1].id = id
               /\ i.calls[1].err = (IF FaultOf(p, 1) # "none" THEN "unavailable"
                                    ELSE IF Present(i.snap, id) THEN "none"
                                    ELSE "notfound")
               /\ i.calls[1].err # "none" =>
                     /\ i.pc = "done" /\ Len(i.calls) = 1
                     /\ i.result = ErrorResult(i.calls[1].err)
               /\ (i.calls[1].err = "none" /\ i.pc = "done") => Len(i.calls) = 2
               /\ Len(i.calls) = 2 =>
                     /\ i.pc = "done"
                     /\ i.calls[2].op = "Delete" /\ i.calls[2].id = id
                     /\ ~i.calls[2].dry
                     /\ i.calls[2].err # "none" =>
                            i.result = ErrorResult(i.calls[2].err)
                     /\ i.calls[2].err = "none" => SaysDeleted(i)
               /\ SaysDeleted(i) =>
                     /\ Len(i.calls) = 2 /\ i.calls[2].op = "Delete"
                     /\ i.calls[2].err = "none"
                     /\ ~Present(store, id)
C30_DeleteStep ==
    \A p \in Procs :
        (RealDelete(inv[p]) /\ inv[p].pc = "delete" /\ inv'[p].pc = "done") =>
            LET id == Id("Agent", DefaultNamespace, NameOf(inv[p].arg))
                last == inv'[p].calls[Len(inv'[p].calls)]
            IN /\ (~Present(store, id) /\ last.err # "unavailable") =>
                     /\ last.err = "notfound"
                     /\ inv'[p].result = ErrorResult("notfound")
               /\ last.err # "none" => store' = store
               /\ last.err = "none" =>
                     /\ Present(store, id)
                     /\ DOMAIN store' = DOMAIN store \ {id}
C30_DeleteGetThenDelete == [](C30_DeleteState) /\ [][C30_DeleteStep]_vars

\* the agent was there at the Get and gone at the Delete
C30_Witness ==
    \E p \in Procs :
        /\ RealDelete(inv[p]) /\ inv[p].pc = "done" /\ Len(inv[p].calls) = 2
        /\ inv[p].calls[1].err = "none"
        /\ inv[p].calls[2].op = "Delete" /\ inv[p].calls[2].err = "notfound"
        /\ inv[p].result.kind = "error"
        /\ Present(inv[p].snap, inv[p].calls[1].id)
        /\ ~Present(store, inv[p].calls[1].id)

====
